---- MODULE Spec2Model ----
(***************************************************************************)
(* Directory Service node core of Zilliqa: the DS state register and its   *)
(* action-permission check (DirectoryService.cpp) and the PoW submission   *)
(* intake pipeline with its pool and per-key counter (PoWProcessing.cpp).  *)
(*                                                                         *)
(* Network worker threads run ProcessPoWSubmission concurrently; the        *)
(* consensus threads change m_state through SetState; CleanVariables runs  *)
(* on its own thread.  Every access to shared memory is one step of its    *)
(* thread, and a critical section under a single lock_guard is one step    *)
(* guarded by the mutex being free.  The node is built as a DS node.       *)
(***************************************************************************)
EXTENDS Integers, Sequences, FiniteSets, Bags, TLC

(* ------------------------------ bounds -------------------------------- *)

\* the network worker threads delivering PoW submissions
Workers == {"w1", "w2"}
\* per-key, per-epoch submission limit (configuration value)
POW_SUBMISSION_LIMIT == 2

(* ------------------------- configuration ------------------------------ *)

\* the node is built as a DS node, not as a lookup node
LOOKUP_NODE_MODE == FALSE
\* the node runs in a test network, where a DS whitelist is consulted
TEST_NET_MODE == TRUE
\* genesis difficulties (configuration values)
POW_DIFFICULTY == 3
DS_POW_DIFFICULTY == 5
\* sizes of the wire fields
PUB_KEY_SIZE == 33
BLOCK_HASH_SIZE == 32
SIGNATURE_CHALLENGE_SIZE == 32
SIGNATURE_RESPONSE_SIZE == 32
UINT64_SIZE == 8
UINT32_SIZE == 4
UINT8_SIZE == 1

(* --------------------------- enumerations ----------------------------- *)

POW_SUBMISSION == "POW_SUBMISSION"
DSBLOCK_CONSENSUS_PREP == "DSBLOCK_CONSENSUS_PREP"
DSBLOCK_CONSENSUS == "DSBLOCK_CONSENSUS"
MICROBLOCK_SUBMISSION == "MICROBLOCK_SUBMISSION"
FINALBLOCK_CONSENSUS_PREP == "FINALBLOCK_CONSENSUS_PREP"
FINALBLOCK_CONSENSUS == "FINALBLOCK_CONSENSUS"
VIEWCHANGE_CONSENSUS_PREP == "VIEWCHANGE_CONSENSUS_PREP"
VIEWCHANGE_CONSENSUS == "VIEWCHANGE_CONSENSUS"
ERROR == "ERROR"

DirState ==
    {POW_SUBMISSION, DSBLOCK_CONSENSUS_PREP, DSBLOCK_CONSENSUS,
     MICROBLOCK_SUBMISSION, FINALBLOCK_CONSENSUS_PREP, FINALBLOCK_CONSENSUS,
     VIEWCHANGE_CONSENSUS_PREP, VIEWCHANGE_CONSENSUS, ERROR}

PROCESS_POWSUBMISSION == "PROCESS_POWSUBMISSION"
VERIFYPOW == "VERIFYPOW"
PROCESS_DSBLOCKCONSENSUS == "PROCESS_DSBLOCKCONSENSUS"
PROCESS_MICROBLOCKSUBMISSION == "PROCESS_MICROBLOCKSUBMISSION"
PROCESS_FINALBLOCKCONSENSUS == "PROCESS_FINALBLOCKCONSENSUS"
PROCESS_VIEWCHANGECONSENSUS == "PROCESS_VIEWCHANGECONSENSUS"

Action ==
    {PROCESS_POWSUBMISSION, VERIFYPOW, PROCESS_DSBLOCKCONSENSUS,
     PROCESS_MICROBLOCKSUBMISSION, PROCESS_FINALBLOCKCONSENSUS,
     PROCESS_VIEWCHANGECONSENSUS}

IDLE == "IDLE"
PRIMARY_DS == "PRIMARY_DS"
BACKUP_DS == "BACKUP_DS"
Mode == {IDLE, PRIMARY_DS, BACKUP_DS}

(* ------------------------------ state --------------------------------- *)

VARIABLES
    m_state,              \* DirState register
    m_mode,               \* Mode
    m_viewChangeCounter,
    m_allPoWConns,        \* PubKey -> Peer       (partial function)
    m_allPoWs,            \* PubKey -> hash       (partial function)
    m_allDSPoWs,          \* PubKey -> hash       (partial function)
    m_AllPoWCounter,      \* PubKey -> count      (partial function)
    m_mutexAllPOW,        \* whether the mutex is locked
    m_mutexAllPoWConns,   \* whether the mutex is locked
    lastDSBlock,          \* header of m_dsBlockChain.GetLastBlock()
    calls,                \* bag of the running ProcessPoWSubmission calls
    cleanPc,              \* position of the thread running CleanVariables
    probe,                \* last call of a read-only member: input, result
    m_syncType,           \* m_mediator.m_lookup->m_syncType
    m_consensusMyID,      \* index of this node in the DS committee
    m_consensusLeaderID,
    m_DSCommittee,        \* m_mediator.m_DSCommittee: the keys, in order
    executed,             \* last call of Execute: opcode, handler, result
    threadAt              \* thread -> where it is in its code

vars ==
    <<m_state, m_mode, m_viewChangeCounter, m_allPoWConns, m_allPoWs,
      m_allDSPoWs, m_AllPoWCounter, m_mutexAllPOW, m_mutexAllPoWConns,
      lastDSBlock, calls, cleanPc, probe, m_syncType, m_consensusMyID,
      m_consensusLeaderID, m_DSCommittee, executed, threadAt>>

\* what the DS node knows of its committee and of its synchronisation
dsinfo ==
    <<m_syncType, m_consensusMyID, m_consensusLeaderID, m_DSCommittee>>

pool == <<m_allPoWConns, m_allPoWs, m_allDSPoWs, m_AllPoWCounter>>


\* the threads that take the mutexes of the PoW pool: the workers in
\* ProcessPoWSubmission, and one thread each in CleanVariables, in
\* CalculateNewDifficulty and in an accessor of m_allDSPoWs
LockThreads ==
    Workers \cup {"CleanVariables", "CalculateNewDifficulty", "GetAllDSPoWs"}

\* the threads that call RejoinAsDS; each goes on as the detached function
\* of lines 428-433 and then as that of StartSynchronization, lines 74-108
RejoinThreads == {"rejoin1", "rejoin2"}

\* the threads whose position threadAt keeps
Threads == LockThreads \cup RejoinThreads

(* ------------------------- std::map helpers --------------------------- *)

EmptyMap == [k \in {} |-> 0]

\* map[key] = value : inserts or overwrites
MapAssign(m, k, v) == [x \in (DOMAIN m) \cup {k} |-> IF x = k THEN v ELSE m[x]]

\* map.emplace(key, value) : inserts only when the key is absent
MapEmplace(m, k, v) == IF k \in DOMAIN m THEN m ELSE MapAssign(m, k, v)

(* ----------------------- DirectoryService.cpp ------------------------- *)

\* static const std::multimap<DirState, Action> ACTIONS_FOR_STATE
ACTIONS_FOR_STATE ==
    {<<POW_SUBMISSION, PROCESS_POWSUBMISSION>>,
     <<POW_SUBMISSION, VERIFYPOW>>,
     <<DSBLOCK_CONSENSUS, PROCESS_DSBLOCKCONSENSUS>>,
     <<MICROBLOCK_SUBMISSION, PROCESS_MICROBLOCKSUBMISSION>>,
     <<FINALBLOCK_CONSENSUS, PROCESS_FINALBLOCKCONSENSUS>>,
     <<VIEWCHANGE_CONSENSUS, PROCESS_VIEWCHANGECONSENSUS>>}

\* CheckState without the m_mode test
CheckStateNoIdle(mode, state, action) ==
    IF LOOKUP_NODE_MODE THEN TRUE
    ELSE \E pos \in ACTIONS_FOR_STATE : pos[1] = state /\ pos[2] = action

\* CheckState accepting the PoW actions one state too long
CheckStateGrace(mode, state, action) ==
    IF LOOKUP_NODE_MODE THEN TRUE
    ELSE IF mode = IDLE THEN FALSE
    ELSE \E pos \in ACTIONS_FOR_STATE \cup
                    {<<DSBLOCK_CONSENSUS_PREP, PROCESS_POWSUBMISSION>>,
                     <<DSBLOCK_CONSENSUS_PREP, VERIFYPOW>>} :
            pos[1] = state /\ pos[2] = action

\* bool DirectoryService::CheckState(Action action), as a function of the
\* two members it reads
CheckState(mode, state, action) ==
    IF LOOKUP_NODE_MODE THEN TRUE
    ELSE IF mode = IDLE THEN FALSE
    ELSE \E pos \in ACTIONS_FOR_STATE : pos[1] = state /\ pos[2] = action

\* bool DirectoryService::CheckWhetherDSBlockIsFresh(dsblock_num)
CheckWhetherDSBlockIsFresh(dsblock_num) ==
    IF LOOKUP_NODE_MODE THEN TRUE
    ELSE IF dsblock_num < lastDSBlock.blockNum + 1 THEN FALSE
    ELSE IF dsblock_num > lastDSBlock.blockNum + 1 THEN FALSE
    ELSE TRUE

\* void DirectoryService::SetState(DirState state): the new value of m_state
SetState(state) == IF LOOKUP_NODE_MODE THEN m_state ELSE state

(* --------------------------- collaborators ---------------------------- *)

PubKeys == {"pk1"}
\* two PoW solutions a submitter can send, each from its own listening port
Solutions == {[hash |-> "h1", port |-> 1], [hash |-> "h2", port |-> 2]}
\* headers the last block of m_dsBlockChain can carry
DSBlockHeaders ==
    {[blockNum |-> 0, difficulty |-> 4, dsDifficulty |-> 6],
     [blockNum |-> 1, difficulty |-> 4, dsDifficulty |-> 6]}

\* from.m_ipAddress of the submissions
FromIP == "ip1"

\* Peer(ipAddr, portNo)
Peer(ip, port) == [ip |-> ip, port |-> port]

\* the DS whitelist of the test network: the submitter at port 1 is on it,
\* the submitter at port 2 is not
DSWhiteList == {<<Peer(FromIP, 1), "pk1">>}

\* Whitelist::IsNodeInDSWhiteList(peer, key)
IsNodeInDSWhiteList(peer, key) == <<peer, key>> \in DSWhiteList

\* IsMessageSizeInappropriate(message.size(), offset, minLengthNeeded),
\* with bodyLen = message.size() - offset
IsMessageSizeInappropriate(bodyLen, minLengthNeeded) ==
    minLengthNeeded > bodyLen

\* The answers of PubKey::Deserialize, Whitelist::IsValidIP, Schnorr::Verify
\* and POW::PoWVerify are inputs of the step that asks for them.

\* length of the body described by the wire schema
FullBodyLen ==
    UINT64_SIZE + UINT8_SIZE + UINT32_SIZE + PUB_KEY_SIZE + UINT64_SIZE
    + BLOCK_HASH_SIZE + BLOCK_HASH_SIZE
    + SIGNATURE_CHALLENGE_SIZE + SIGNATURE_RESPONSE_SIZE

\* expectedDSDiff of VerifyPoWSubmission and of the record step
ExpectedDSDiff(block_num) ==
    IF block_num > 1 THEN lastDSBlock.dsDifficulty ELSE DS_POW_DIFFICULTY

\* expectedDiff of VerifyPoWSubmission
ExpectedDiff(block_num) ==
    IF block_num > 1 THEN lastDSBlock.difficulty ELSE POW_DIFFICULTY

\* a message for the next DS block, with solution s at difficulty d
GoodMsg(k, d, s) ==
    [blockNum |-> lastDSBlock.blockNum + 1, difficulty |-> d,
     port |-> s.port, key |-> k, hash |-> s.hash, len |-> FullBodyLen]

\* per key: solution h1 at the shard difficulty, solution h2 at the DS one
GoodMsgs ==
    {GoodMsg(k, IF s.hash = "h1"
                THEN ExpectedDiff(lastDSBlock.blockNum + 1)
                ELSE ExpectedDSDiff(lastDSBlock.blockNum + 1), s) :
        k \in PubKeys, s \in Solutions}

\* messages with one defect each; the wrong difficulty is one that would be
\* right for another block number
BadMsgs ==
    LET g == CHOOSE m \in GoodMsgs :
                m.difficulty = ExpectedDiff(lastDSBlock.blockNum + 1) IN
      {[g EXCEPT !.blockNum = lastDSBlock.blockNum],
       [g EXCEPT !.blockNum = lastDSBlock.blockNum + 2],
       [g EXCEPT !.difficulty = IF lastDSBlock.blockNum + 1 > 1
                               THEN POW_DIFFICULTY
                               ELSE lastDSBlock.difficulty],
       [g EXCEPT !.len = FullBodyLen - UINT64_SIZE]}

\* the messages a peer may send
Messages == GoodMsgs \cup BadMsgs

NoMsg == [key |-> "none"]

NoProbe == [op |-> "none"]

\* SyncType, as far as DirectoryService.cpp names it
NO_SYNC == "NO_SYNC"
DS_SYNC == "DS_SYNC"
SyncType == {NO_SYNC, DS_SYNC}

\* no call of Execute yet
NoExecute ==
    [ins_byte |-> -1, handler |-> "none", primary |-> "none",
     deserialized |-> FALSE, returned |-> FALSE, result |-> FALSE]

(* ------------------------- PoWProcessing.cpp -------------------------- *)

\* VerifyPoWSubmission that skips the signature check
VerifyPoWSubmissionNoSig(m, sigOK, powOK) ==
    LET block_num == lastDSBlock.blockNum + 1 IN
    IF m.difficulty # ExpectedDSDiff(block_num)
          /\ m.difficulty # ExpectedDiff(block_num) THEN FALSE
    ELSE powOK

\* bool DirectoryService::VerifyPoWSubmission(...); sigOK is the answer of
\* Schnorr::Verify and powOK that of POW::PoWVerify
VerifyPoWSubmission(m, sigOK, powOK) ==
    LET block_num == lastDSBlock.blockNum + 1 IN
    IF LOOKUP_NODE_MODE THEN TRUE
    ELSE IF ~sigOK THEN FALSE
    ELSE IF m.difficulty # ExpectedDSDiff(block_num)
          /\ m.difficulty # ExpectedDiff(block_num) THEN FALSE
    ELSE powOK

\* CheckPoWSubmissionExceedsLimitsForNode allowing one submission more
CheckPoWSubmissionExceedsLimitsOffByOne(key) ==
    IF key \notin DOMAIN m_AllPoWCounter THEN FALSE
    ELSE IF m_AllPoWCounter[key] <= POW_SUBMISSION_LIMIT THEN FALSE
    ELSE TRUE

\* bool DirectoryService::CheckPoWSubmissionExceedsLimitsForNode(key)
CheckPoWSubmissionExceedsLimitsForNode(key) ==
    IF key \notin DOMAIN m_AllPoWCounter THEN FALSE
    ELSE IF m_AllPoWCounter[key] < POW_SUBMISSION_LIMIT THEN FALSE
    ELSE TRUE

\* void DirectoryService::UpdatePoWSubmissionCounterforNode(key): the new map
UpdatePoWSubmissionCounterforNode(key) ==
    IF key \notin DOMAIN m_AllPoWCounter
    THEN MapEmplace(m_AllPoWCounter, key, 1)
    ELSE MapAssign(m_AllPoWCounter, key, m_AllPoWCounter[key] + 1)

\* void DirectoryService::AddDSPoWs(Pubk, DSPOWSoln): the new map
AddDSPoWs(Pubk, DSPOWSoln) == MapAssign(m_allDSPoWs, Pubk, DSPOWSoln)

\* minimum body length ProcessPoWSubmission asks for
PoWSubmissionMinLen ==
    UINT64_SIZE + UINT32_SIZE + PUB_KEY_SIZE + UINT64_SIZE + BLOCK_HASH_SIZE
    + BLOCK_HASH_SIZE + SIGNATURE_CHALLENGE_SIZE + SIGNATURE_RESPONSE_SIZE

(* ------------- ProcessPoWSubmission, one call per thread ------------- *)

\* A running call: its position, its message, the answers the signature and
\* PoW verifiers gave it, and, once it has returned, the value returned and
\* the message logged with it.  atLimit is history: the submitter's count
\* had reached the limit when the call began and has not been reset since.
\* The worker threads run the same code and are told apart by nothing, so
\* the running calls form a bag.
NewCall(m, label) ==
    [pc |-> label, msg |-> m, sigOK |-> FALSE, powOK |-> FALSE,
     result |-> FALSE, reason |-> "none", atLimit |-> FALSE]

\* the count of key has reached the limit
AtLimit(key) ==
    /\ key \in DOMAIN m_AllPoWCounter
    /\ m_AllPoWCounter[key] >= POW_SUBMISSION_LIMIT

Running == BagToSet(calls)

\* call c becomes d
Becomes(c, d) == calls' = (calls (-) SetToBag({c})) (+) SetToBag({d})

Goto(c, label) == Becomes(c, [c EXCEPT !.pc = label])

\* a call that has returned: the value returned and the message logged
Returned(value, why) ==
    [NewCall(NoMsg, "done") EXCEPT !.result = value, !.reason = why]

ReturnWith(c, value, why) == Becomes(c, Returned(value, why))

\* the gate without the state check of line 344
GateNoStateCheck(m, keyOK, atLimit) ==
    IF IsMessageSizeInappropriate(m.len, PoWSubmissionMinLen)
    THEN Returned(FALSE, "SizeInappropriate")
    ELSE IF ~CheckWhetherDSBlockIsFresh(m.blockNum)
    THEN Returned(FALSE, "NotFresh")
    ELSE IF ~keyOK
    THEN Returned(FALSE, "BadPubKey")
    ELSE IF TEST_NET_MODE /\ ~IsNodeInDSWhiteList(Peer(FromIP, m.port), m.key)
    THEN [NewCall(m, "early") EXCEPT !.atLimit = atLimit]
    ELSE [NewCall(m, "early") EXCEPT !.atLimit = atLimit]

\* lines 344-361 and 147-188: the state gate, the size check, and the
\* parsing of the head of the body with the freshness check: the call as it
\* leaves them.  keyOK is the answer of PubKey::Deserialize.  Lines
\* 182-188 log a submitter missing from the whitelist ("Hence, not
\* accepted!") and do not return: the call goes on as for any other.
Gate(m, keyOK, atLimit) ==
    IF ~CheckState(m_mode, m_state, PROCESS_POWSUBMISSION)
    THEN Returned(FALSE, "NotAtPoWSubmission")
    ELSE IF IsMessageSizeInappropriate(m.len, PoWSubmissionMinLen)
    THEN Returned(FALSE, "SizeInappropriate")
    ELSE IF ~CheckWhetherDSBlockIsFresh(m.blockNum)
    THEN Returned(FALSE, "NotFresh")
    ELSE IF ~keyOK
    THEN Returned(FALSE, "BadPubKey")
    ELSE IF TEST_NET_MODE /\ ~IsNodeInDSWhiteList(Peer(FromIP, m.port), m.key)
    THEN [NewCall(m, "early") EXCEPT !.atLimit = atLimit]
    ELSE [NewCall(m, "early") EXCEPT !.atLimit = atLimit]

\* lines 328-361: a free worker thread takes a message.  The read of
\* m_state at line 328 decides whether to wait.  When it does not, the gate
\* follows in the same step: the reads of line 344 finding a later state
\* than the read of line 328 is what a call entering later finds, and a
\* call that finds FINALBLOCK_CONSENSUS only at line 344 returns what a call
\* returns that waited in vain.
Enter(m, keyOK) ==
    /\ ~LOOKUP_NODE_MODE
    /\ BagCardinality(calls) < Cardinality(Workers)
    /\ calls' = calls (+) SetToBag({IF m_state = FINALBLOCK_CONSENSUS
          THEN [NewCall(m, "wait") EXCEPT !.atLimit = AtLimit(m.key)]
          ELSE Gate(m, keyOK, AtLimit(m.key))})
    /\ UNCHANGED <<m_state, m_mode, m_viewChangeCounter, pool, m_mutexAllPOW,
                   m_mutexAllPoWConns, lastDSBlock, cleanPc, probe,
                   dsinfo,
                   threadAt>>

\* lines 330-361: cv_POWSubmission.wait_for returns, woken or timed out
\* after POW_SUBMISSION_TIMEOUT, and the gate follows
WaitReturns(c, keyOK) ==
    /\ c.pc = "wait"
    /\ Becomes(c, Gate(c.msg, keyOK, c.atLimit))
    /\ UNCHANGED <<m_state, m_mode, m_viewChangeCounter, pool, m_mutexAllPOW,
                   m_mutexAllPoWConns, lastDSBlock, cleanPc, probe,
                   dsinfo, executed,
                   threadAt>>

\* lines 192-207: the first VERIFYPOW check ("Assume true as it has no
\* impact"), then the IP check; ipValid is the answer of Whitelist::IsValidIP
Early(c, ipValid) ==
    /\ c.pc = "early"
    /\ IF ~CheckState(m_mode, m_state, VERIFYPOW)
       THEN ReturnWith(c, TRUE, "TooLate")
       ELSE IF ~ipValid
       THEN ReturnWith(c, FALSE, "InvalidIP")
       ELSE Goto(c, "limit")
    /\ UNCHANGED <<m_state, m_mode, m_viewChangeCounter, pool, m_mutexAllPOW,
                   m_mutexAllPoWConns, lastDSBlock, cleanPc, probe,
                   dsinfo, executed,
                   threadAt>>

\* lines 214-223 and 264-276: the rate limit, read under
\* m_mutexAllPoWCounter, then VerifyPoWSubmission
Limit(c, sigOK, powOK) ==
    /\ c.pc = "limit"
    /\ IF CheckPoWSubmissionExceedsLimitsForNode(c.msg.key)
       THEN ReturnWith(c, FALSE, "ExceededLimit")
       ELSE IF ~VerifyPoWSubmission(c.msg, sigOK, powOK)
       THEN ReturnWith(c, FALSE, "InvalidPoW")
       ELSE Becomes(c, [c EXCEPT !.pc = "recheck", !.sigOK = sigOK,
                                 !.powOK = powOK])
    /\ UNCHANGED <<m_state, m_mode, m_viewChangeCounter, pool, m_mutexAllPOW,
                   m_mutexAllPoWConns, lastDSBlock, cleanPc, probe,
                   dsinfo, executed,
                   threadAt>>

\* the verified submission recorded without the second VERIFYPOW check
RecheckRecordsAnyway(c) ==
    /\ c.pc = "recheck"
    /\ Goto(c, "lock")
    /\ UNCHANGED <<m_state, m_mode, m_viewChangeCounter, pool, m_mutexAllPOW,
                   m_mutexAllPoWConns, lastDSBlock, cleanPc, probe,
                   dsinfo, executed,
                   threadAt>>

\* lines 229-233 and 276: the second VERIFYPOW check; the call returns
\* result, which is true here
Recheck(c) ==
    /\ c.pc = "recheck"
    /\ IF ~CheckState(m_mode, m_state, VERIFYPOW)
       THEN ReturnWith(c, TRUE, "TooLateAfterVerify")
       ELSE Goto(c, "lock")
    /\ UNCHANGED <<m_state, m_mode, m_viewChangeCounter, pool, m_mutexAllPOW,
                   m_mutexAllPoWConns, lastDSBlock, cleanPc, probe,
                   dsinfo, executed,
                   threadAt>>

\* lines 238-240: std::lock takes both mutexes, without deadlock
Lock(c) ==
    /\ c.pc = "lock"
    /\ ~m_mutexAllPOW
    /\ ~m_mutexAllPoWConns
    /\ m_mutexAllPOW' = TRUE
    /\ m_mutexAllPoWConns' = TRUE
    /\ Goto(c, "conns")
    /\ UNCHANGED <<m_state, m_mode, m_viewChangeCounter, pool, lastDSBlock,
                   cleanPc, probe,
                   dsinfo, executed,
                   threadAt>>

\* line 245: m_allPoWConns.emplace(key, peer)
RecordConn(c) ==
    /\ c.pc = "conns"
    /\ m_allPoWConns' =
          MapEmplace(m_allPoWConns, c.msg.key, Peer(FromIP, c.msg.port))
    /\ Goto(c, "pows")
    /\ UNCHANGED <<m_state, m_mode, m_viewChangeCounter, m_allPoWs,
                   m_allDSPoWs, m_AllPoWCounter, m_mutexAllPOW,
                   m_mutexAllPoWConns, lastDSBlock, cleanPc, probe,
                   dsinfo, executed,
                   threadAt>>

\* line 246 as an insertion that takes a key already present for a
\* duplicate and removes the record
RecordPoWDropsDuplicate(c) ==
    /\ c.pc = "pows"
    /\ m_allPoWs' =
          IF c.msg.key \in DOMAIN m_allPoWs
          THEN [k \in DOMAIN m_allPoWs \ {c.msg.key} |-> m_allPoWs[k]]
          ELSE MapAssign(m_allPoWs, c.msg.key, c.msg.hash)
    /\ Goto(c, "dspows")
    /\ UNCHANGED <<m_state, m_mode, m_viewChangeCounter, m_allPoWConns,
                   m_allDSPoWs, m_AllPoWCounter, m_mutexAllPOW,
                   m_mutexAllPoWConns, lastDSBlock, cleanPc, probe,
                   dsinfo, executed,
                   threadAt>>

\* line 246: m_allPoWs[key] = winningHashArr
RecordPoW(c) ==
    /\ c.pc = "pows"
    /\ m_allPoWs' = MapAssign(m_allPoWs, c.msg.key, c.msg.hash)
    /\ Goto(c, "dspows")
    /\ UNCHANGED <<m_state, m_mode, m_viewChangeCounter, m_allPoWConns,
                   m_allDSPoWs, m_AllPoWCounter, m_mutexAllPOW,
                   m_mutexAllPoWConns, lastDSBlock, cleanPc, probe,
                   dsinfo, executed,
                   threadAt>>

\* lines 248-259: AddDSPoWs under m_mutexAllDSPOWs for a DS-tier solution
RecordDSPoW(c) ==
    /\ c.pc = "dspows"
    /\ m_allDSPoWs' =
          IF c.msg.difficulty = ExpectedDSDiff(lastDSBlock.blockNum + 1)
          THEN AddDSPoWs(c.msg.key, c.msg.hash) ELSE m_allDSPoWs
    /\ Goto(c, "counter")
    /\ UNCHANGED <<m_state, m_mode, m_viewChangeCounter, m_allPoWConns,
                   m_allPoWs, m_AllPoWCounter, m_mutexAllPOW,
                   m_mutexAllPoWConns, lastDSBlock, cleanPc, probe,
                   dsinfo, executed,
                   threadAt>>

\* lines 261-262 and 276: the counter update under m_mutexAllPoWCounter, the
\* release of both pool mutexes at the end of the block, return result
RecordCount(c) ==
    /\ c.pc = "counter"
    /\ m_AllPoWCounter' = UpdatePoWSubmissionCounterforNode(c.msg.key)
    /\ m_mutexAllPOW' = FALSE
    /\ m_mutexAllPoWConns' = FALSE
    /\ ReturnWith(c, TRUE, "Recorded")
    /\ UNCHANGED <<m_state, m_mode, m_viewChangeCounter, m_allPoWConns,
                   m_allPoWs, m_allDSPoWs, lastDSBlock, cleanPc, probe,
                   dsinfo, executed,
                   threadAt>>

\* the caller (Execute) takes the result; the thread is free again
Return(c) ==
    /\ c.pc = "done"
    /\ calls' = calls (-) SetToBag({c})
    /\ UNCHANGED <<m_state, m_mode, m_viewChangeCounter, pool, m_mutexAllPOW,
                   m_mutexAllPoWConns, lastDSBlock, cleanPc, probe,
                   dsinfo, executed,
                   threadAt>>

\* a running call takes its next step
Proceed(c) ==
    \/ \E keyOK \in BOOLEAN : WaitReturns(c, keyOK)
    \/ \E ipValid \in BOOLEAN : Early(c, ipValid)
    \/ \E sigOK \in BOOLEAN, powOK \in BOOLEAN : Limit(c, sigOK, powOK)
    \/ Recheck(c)
    \/ Lock(c)
    \/ RecordConn(c)
    \/ RecordPoW(c)
    \/ RecordDSPoW(c)
    \/ RecordCount(c)
    \/ Return(c)

ProcessPoWSubmission ==
    \/ \E m \in Messages, keyOK \in BOOLEAN :
          Enter(m, keyOK) /\ UNCHANGED executed
    \/ \E c \in Running : Proceed(c)

(* ------------------------- CleanVariables ----------------------------- *)

\* lines 377-379: m_allPoWConns.clear(), with no mutex held.  A clear that
\* overlaps an emplace of a worker is a data race; its outcomes here are the
\* two orders of the two operations.
CleanPoWConns ==
    /\ ~LOOKUP_NODE_MODE
    /\ cleanPc = "idle"
    /\ m_allPoWConns' = EmptyMap
    /\ cleanPc' = "pows"
    /\ UNCHANGED <<m_state, m_mode, m_viewChangeCounter, m_allPoWs,
                   m_allDSPoWs, m_AllPoWCounter, m_mutexAllPOW,
                   m_mutexAllPoWConns, lastDSBlock, calls, probe,
                   dsinfo, executed,
                   threadAt>>

\* lines 391-394: m_allPoWs.clear() under m_mutexAllPOW
CleanPoWs ==
    /\ cleanPc = "pows"
    /\ ~m_mutexAllPOW
    /\ m_allPoWs' = EmptyMap
    /\ cleanPc' = "dspows"
    /\ UNCHANGED <<m_state, m_mode, m_viewChangeCounter, m_allPoWConns,
                   m_allDSPoWs, m_AllPoWCounter, m_mutexAllPOW,
                   m_mutexAllPoWConns, lastDSBlock, calls, probe,
                   dsinfo, executed,
                   threadAt>>

\* line 396: clearDSPoWSolns() under m_mutexAllDSPOWs
CleanDSPoWs ==
    /\ cleanPc = "dspows"
    /\ m_allDSPoWs' = EmptyMap
    /\ cleanPc' = "counter"
    /\ UNCHANGED <<m_state, m_mode, m_viewChangeCounter, m_allPoWConns,
                   m_allPoWs, m_AllPoWCounter, m_mutexAllPOW,
                   m_mutexAllPoWConns, lastDSBlock, calls, probe,
                   dsinfo, executed,
                   threadAt>>

\* line 398: ResetPoWSubmissionCounter() under m_mutexAllPoWCounter
CleanCounter ==
    /\ cleanPc = "counter"
    /\ m_AllPoWCounter' = EmptyMap
    /\ calls' = BagOfAll(LAMBDA c : [c EXCEPT !.atLimit = FALSE], calls)
    /\ cleanPc' = "tail"
    /\ UNCHANGED <<m_state, m_mode, m_viewChangeCounter, m_allPoWConns,
                   m_allPoWs, m_allDSPoWs, m_mutexAllPOW, m_mutexAllPoWConns,
                   lastDSBlock, probe,
                   dsinfo, executed,
                   threadAt>>

\* lines 400-411: the remaining members, then return true
CleanTail ==
    /\ cleanPc = "tail"
    /\ m_viewChangeCounter' = 0
    /\ m_mode' = IDLE
    /\ m_consensusLeaderID' = 0
    /\ cleanPc' = "idle"
    /\ UNCHANGED <<m_state, pool, m_mutexAllPOW, m_mutexAllPoWConns,
                   lastDSBlock, calls, probe, m_syncType, m_consensusMyID,
                   m_DSCommittee, executed,
                   threadAt>>

CleanVariables ==
    \/ CleanPoWConns
    \/ CleanPoWs
    \/ CleanDSPoWs
    \/ CleanCounter
    \/ CleanTail

(* ---------------------- mode and state changes ------------------------ *)

\* m_mediator.m_selfPeer and m_mediator.m_selfKey
m_selfPeer == Peer("ip0", 0)

m_selfKey == "ds2"

\* the peers a SETPRIMARY message may announce
Primaries == {m_selfPeer, Peer("ip1", 1)}

\* the keys of the other DS nodes in the PeerStore, and the order of PubKey
PeerStoreKeys == {"ds1", "ds3"}

PubKeyOrder == <<"ds1", "ds2", "ds3">>

\* PeerStore::GetAllPeerPairs(): the keys of the store in their order.  The
\* peers stored with them play no part in what follows and are left out.
GetAllPeerPairs(keys) == SelectSeq(PubKeyOrder, LAMBDA k : k \in keys)

\* the loop of lines 258-269 and 451-467: the position of m_selfKey in the
\* committee, the size of the committee when it is missing
RECURSIVE IndexOfSelf(_)
IndexOfSelf(committee) ==
    IF committee = <<>> \/ Head(committee) = m_selfKey
    THEN 0
    ELSE 1 + IndexOfSelf(Tail(committee))

\* what m_consensusMyID may hold before it is first assigned: the
\* constructor does not initialise it
RawIDs == 0 .. 2

\* ProcessSetPrimary that makes every node a backup
ProcessSetPrimaryAlwaysBackup(primary, deserialized, result) ==
    /\ ~LOOKUP_NODE_MODE
    /\ IF ~deserialized
       THEN /\ result = FALSE
            /\ UNCHANGED <<m_mode, m_consensusMyID, m_consensusLeaderID,
                           m_DSCommittee,
                   threadAt>>
       ELSE /\ result = TRUE
            /\ m_mode' = BACKUP_DS
            /\ m_DSCommittee' = GetAllPeerPairs(PeerStoreKeys \cup {m_selfKey})
            /\ m_consensusMyID' = IndexOfSelf(m_DSCommittee')
            /\ m_consensusLeaderID' = 0
    /\ UNCHANGED <<m_state, m_viewChangeCounter, pool, m_mutexAllPOW,
                   m_mutexAllPoWConns, lastDSBlock, calls, cleanPc, probe,
                   m_syncType,
                   threadAt>>

\* ProcessSetPrimary, lines 161-300, with the value it returns.
\* deserialized is the answer of Peer::Deserialize for the announced peer.
\* There is no check of the mode or of the state the node is in (the note of
\* line 173 is a comment).  The committee is the PeerStore with this node
\* added (lines 246-254; a primary builds the same list at lines 215-224
\* first).  The handler then sleeps through the PoW window and calls
\* RunConsensusOnDSBlock (line 297), from where the consensus threads go on
\* with their calls of SetState, and returns true.
ProcessSetPrimary(primary, deserialized, result) ==
    /\ ~LOOKUP_NODE_MODE
    /\ IF ~deserialized
       THEN /\ result = FALSE
            /\ UNCHANGED <<m_mode, m_consensusMyID, m_consensusLeaderID,
                           m_DSCommittee,
                   threadAt>>
       ELSE /\ result = TRUE
            /\ m_mode' = IF primary = m_selfPeer THEN PRIMARY_DS ELSE BACKUP_DS
            /\ m_DSCommittee' = GetAllPeerPairs(PeerStoreKeys \cup {m_selfKey})
            /\ m_consensusMyID' = IndexOfSelf(m_DSCommittee')
            /\ m_consensusLeaderID' = 0
    /\ UNCHANGED <<m_state, m_viewChangeCounter, pool, m_mutexAllPOW,
                   m_mutexAllPoWConns, lastDSBlock, calls, cleanPc, probe,
                   m_syncType,
                   threadAt>>

\* FinishRejoinAsDS, lines 438-474: the node is a backup again and looks
\* itself up in the committee; RunConsensusOnDSBlock follows as above
FinishRejoinAsDS ==
    /\ ~LOOKUP_NODE_MODE
    /\ m_mode' = BACKUP_DS
    /\ m_consensusMyID' = IndexOfSelf(m_DSCommittee)
    /\ UNCHANGED <<m_state, m_viewChangeCounter, pool, m_mutexAllPOW,
                   m_mutexAllPoWConns, lastDSBlock, calls, cleanPc, probe,
                   m_syncType, m_consensusLeaderID, m_DSCommittee, executed,
                   threadAt>>

\* the states SetState is called with between two PoW windows, as far as
\* the PoW intake tells them apart
DriverStates ==
    {POW_SUBMISSION, DSBLOCK_CONSENSUS_PREP, DSBLOCK_CONSENSUS,
     FINALBLOCK_CONSENSUS}

\* a consensus thread calls SetState(s); SetState takes no mutex
DriverSetState(s) ==
    /\ s # m_state
    /\ m_state' = SetState(s)
    /\ UNCHANGED <<m_mode, m_viewChangeCounter, pool, m_mutexAllPOW,
                   m_mutexAllPoWConns, lastDSBlock, calls, cleanPc, probe,
                   dsinfo, executed,
                   threadAt>>

(* --------------------------- specification ---------------------------- *)

\* the members that are objects, as their own constructors leave them, and
\* what the model adds; m_consensusMyID is assigned by no constructor
Constructed ==
    /\ m_allPoWConns = EmptyMap
    /\ m_allPoWs = EmptyMap
    /\ m_allDSPoWs = EmptyMap
    /\ m_AllPoWCounter = EmptyMap
    /\ m_mutexAllPOW = FALSE
    /\ m_mutexAllPoWConns = FALSE
    /\ lastDSBlock \in DSBlockHeaders
    /\ calls = EmptyBag
    /\ cleanPc = "idle"
    /\ probe = NoProbe
    /\ m_consensusMyID \in RawIDs
    /\ m_DSCommittee = <<>>
    /\ executed = NoExecute
    /\ threadAt = [t \in Threads |-> "idle"]

\* DirectoryService::DirectoryService on a non-lookup node
Init ==
    /\ m_state = SetState(POW_SUBMISSION)
    /\ m_mode = IDLE
    /\ m_consensusLeaderID = 0
    /\ m_viewChangeCounter = 0
    /\ m_syncType = NO_SYNC
    /\ Constructed

Next ==
    \/ ProcessPoWSubmission
    \/ CleanVariables
    \/ \E primary \in Primaries :
          ProcessSetPrimary(primary, TRUE, TRUE) /\ UNCHANGED executed
    \/ \E s \in DriverStates : DriverSetState(s)

Spec == Init /\ [][Next]_vars

(* --------------------------- construction ----------------------------- *)

\* the constructor that leaves m_mode as it finds it
DirectoryServiceNoMode ==
    /\ probe = NoProbe
    /\ m_state' = SetState(POW_SUBMISSION)
    /\ UNCHANGED m_mode
    /\ m_consensusLeaderID' = 0
    /\ m_viewChangeCounter' = 0
    /\ probe' = [op |-> "DirectoryService"]
    /\ UNCHANGED <<pool, m_mutexAllPOW, m_mutexAllPoWConns, lastDSBlock,
                   calls, cleanPc, m_syncType, m_consensusMyID, m_DSCommittee,
                   executed,
                   threadAt>>

\* DirectoryService::DirectoryService, lines 42-54: SetState(POW_SUBMISSION)
\* and cv_POWSubmission.notify_all() on a node that is no lookup node, then
\* the mode, the leader and the view-change counter (and m_consensusID,
\* which is not modelled)
DirectoryService ==
    /\ probe = NoProbe
    /\ m_state' = SetState(POW_SUBMISSION)
    /\ m_mode' = IDLE
    /\ m_consensusLeaderID' = 0
    /\ m_viewChangeCounter' = 0
    /\ probe' = [op |-> "DirectoryService"]
    /\ UNCHANGED <<pool, m_mutexAllPOW, m_mutexAllPoWConns, lastDSBlock,
                   calls, cleanPc, m_syncType, m_consensusMyID, m_DSCommittee,
                   executed,
                   threadAt>>

\* the leaders a node may be following: the first of the committee, or
\* the next one after a view change
LeaderIDs == 0 .. 1

\* what a counter may hold before the constructor has run
RawCounters == 0 .. 1

\* the object before its constructor body runs: the scalar members hold
\* whatever the memory holds
InitRaw ==
    /\ m_state \in DirState
    /\ m_mode \in Mode
    /\ m_consensusLeaderID \in LeaderIDs
    /\ m_viewChangeCounter \in RawCounters
    /\ m_syncType = NO_SYNC
    /\ Constructed

SpecConstruct == InitRaw /\ [][DirectoryService]_vars

(* ------------------- CheckState called on its own --------------------- *)

\* a caller evaluates CheckState(action): lines 113-159 read m_mode and
\* m_state, log, and write no member
CallCheckState(action) ==
    /\ probe' = [op |-> "CheckState", action |-> action,
                 result |-> CheckState(m_mode, m_state, action)]
    /\ UNCHANGED <<m_state, m_mode, m_viewChangeCounter, pool, m_mutexAllPOW,
                   m_mutexAllPoWConns, lastDSBlock, calls, cleanPc,
                   dsinfo, executed,
                   threadAt>>

\* any state register and any mode, as SetState and the mode assignments
\* can leave them
InitCheckState ==
    /\ m_state \in DirState
    /\ m_mode \in Mode
    /\ m_consensusLeaderID = 0
    /\ m_viewChangeCounter = 0
    /\ m_syncType = NO_SYNC
    /\ Constructed

NextCheckState == \E action \in Action : CallCheckState(action)

SpecCheckState == InitCheckState /\ [][NextCheckState]_vars

(* ------------------------------ Execute ------------------------------- *)

\* ToBlockMessage that never blocks
ToBlockMessageNever(ins_byte) == FALSE

\* ToBlockMessage, lines 476-483; ins_byte is unused
ToBlockMessage(ins_byte) == m_syncType # NO_SYNC

\* the table of Execute with two handlers exchanged
InsHandlersSwapped(lookup) ==
    IF ~lookup
    THEN <<"ProcessSetPrimary", "ProcessPoWSubmission",
           "ProcessMicroblockSubmission", "ProcessDSBlockConsensus",
           "ProcessFinalBlockConsensus", "ProcessViewChangeConsensus">>
    ELSE <<"ProcessSetPrimary", "ProcessPoWSubmission",
           "ProcessMicroblockSubmission", "ProcessDSBlockConsensus",
           "ProcessFinalBlockConsensus">>

\* lines 495-512: ins_handlers, by LOOKUP_NODE_MODE
InsHandlers(lookup) ==
    IF ~lookup
    THEN <<"ProcessSetPrimary", "ProcessPoWSubmission",
           "ProcessDSBlockConsensus", "ProcessMicroblockSubmission",
           "ProcessFinalBlockConsensus", "ProcessViewChangeConsensus">>
    ELSE <<"ProcessSetPrimary", "ProcessPoWSubmission",
           "ProcessDSBlockConsensus", "ProcessMicroblockSubmission",
           "ProcessFinalBlockConsensus">>

ins_handlers == InsHandlers(LOOKUP_NODE_MODE)

\* the instruction bytes a peer may send: every handler and one past them
InsBytes == 0 .. 6

\* the action each consensus handler asks CheckState for
ActionOf(handler) ==
    CASE handler = "ProcessDSBlockConsensus" -> PROCESS_DSBLOCKCONSENSUS
      [] handler = "ProcessMicroblockSubmission" -> PROCESS_MICROBLOCKSUBMISSION
      [] handler = "ProcessFinalBlockConsensus" -> PROCESS_FINALBLOCKCONSENSUS
      [] handler = "ProcessViewChangeConsensus" -> PROCESS_VIEWCHANGECONSENSUS

\* ProcessDSBlockConsensus, ProcessMicroblockSubmission,
\* ProcessFinalBlockConsensus and ProcessViewChangeConsensus: the handler
\* refuses a message its action is not allowed for, and else hands it to
\* the consensus object, whose answer (accepted) it returns.  The state
\* changes of a consensus round come from the consensus threads.
ConsensusHandler(handler, accepted, result) ==
    /\ result = (CheckState(m_mode, m_state, ActionOf(handler)) /\ accepted)
    /\ UNCHANGED <<m_state, m_mode, m_viewChangeCounter, pool, m_mutexAllPOW,
                   m_mutexAllPoWConns, lastDSBlock, calls, cleanPc, probe,
                   dsinfo,
                   threadAt>>

\* what is noted of a call of Execute: the instruction byte, the handler
\* invoked, whether Execute has returned and with what
Executed(ins_byte, handler, returned, result) ==
    [NoExecute EXCEPT !.ins_byte = ins_byte, !.handler = handler,
                      !.returned = returned, !.result = result]

\* line 531: the handler runs on the rest of the message.  A handler that
\* returns within the step leaves its value in result; ProcessPoWSubmission
\* runs on as a call, and Execute returns with it the value the call
\* returns (lines 531 and 543).  Of a SETPRIMARY message the announced peer
\* is noted, by its address, and whether it could be deserialized.
Invoke(handler, ins_byte) ==
    \/ /\ handler = "ProcessSetPrimary"
       /\ \E primary \in Primaries, d \in BOOLEAN, r \in BOOLEAN :
            /\ ProcessSetPrimary(primary, d, r)
            /\ executed' = [Executed(ins_byte, handler, TRUE, r)
                               EXCEPT !.primary = primary.ip,
                                      !.deserialized = d]
    \/ /\ handler = "ProcessPoWSubmission"
       /\ \E m \in GoodMsgs, keyOK \in BOOLEAN :
            /\ Enter(m, keyOK)
            /\ executed' = Executed(ins_byte, handler, FALSE, FALSE)
    \/ /\ handler \notin {"ProcessSetPrimary", "ProcessPoWSubmission"}
       /\ \E accepted \in BOOLEAN, r \in BOOLEAN :
            /\ ConsensusHandler(handler, accepted, r)
            /\ executed' = Executed(ins_byte, handler, TRUE, r)

\* lines 519-524 and 537-543: no handler runs, Execute returns false
Ignore(ins_byte) ==
    /\ executed' = Executed(ins_byte, "none", TRUE, FALSE)
    /\ UNCHANGED <<m_state, m_mode, m_viewChangeCounter, pool, m_mutexAllPOW,
                   m_mutexAllPoWConns, lastDSBlock, calls, cleanPc, probe,
                   dsinfo,
                   threadAt>>

\* Execute, lines 485-544, of a message whose byte at offset is ins_byte
Execute(ins_byte) ==
    IF ToBlockMessage(ins_byte)
    THEN Ignore(ins_byte)
    ELSE IF ins_byte < Len(ins_handlers)
    THEN Invoke(ins_handlers[ins_byte + 1], ins_byte)
    ELSE Ignore(ins_byte)

\* a node in any state and mode, under either leader, synchronising or not
InitDispatch ==
    /\ m_state \in DirState
    /\ m_mode \in Mode
    /\ m_consensusLeaderID \in LeaderIDs
    /\ m_viewChangeCounter = 0
    /\ m_syncType \in SyncType
    /\ Constructed

\* messages are dispatched, the calls of ProcessPoWSubmission run on, and
\* a resynchronisation may end
NextDispatch ==
    \/ \E ins_byte \in InsBytes : Execute(ins_byte)
    \/ \E c \in Running : Proceed(c)
    \/ FinishRejoinAsDS

SpecDispatch == InitDispatch /\ [][NextDispatch]_vars

(* ----------------------- CalculateNewDifficulty ---------------------- *)

\* configuration of the network
POW_CHANGE_PERCENT_TO_ADJ_DIFF == 50
NUM_NETWORK_NODE == 10
POW_WINDOW_IN_SECONDS == 300
NUM_FINAL_BLOCK_PER_POW == 50
TX_DISTRIBUTE_TIME_IN_MS == 10000

\* lines 587-590
MAX_ADJUST_STEP == 2
ONE_HUNDRED_PERCENT == 100
MAX_ADJUST_THRESHOLD == 99
MAX_INCREASE_DIFFICULTY_YEARS == 10

\* (uint8_t) x
Uint8(x) == x % 256

Abs(x) == IF x < 0 THEN -x ELSE x

Max(a, b) == IF a > b THEN a ELSE b

\* a division that rounds towards minus infinity
FloorDiv(a, b) == a \div b

\* integer division of C++, which truncates towards zero; b > 0
CppDiv(a, b) == IF a >= 0 THEN a \div b ELSE -((-a) \div b)

\* SafeMath<int64_t>::div(a, b, result) with its fallback of lines 643-650:
\* the quotient, and 0 when the division is refused
SafeDivOrZero(a, b) == IF b = 0 THEN 0 ELSE CppDiv(a, b)

\* lines 607-650: the adjustment before it is restricted
RawAdjustment(powSubmissions, currentNodes) ==
    IF currentNodes > 0 /\ currentNodes # powSubmissions
    THEN LET submissionsDiff == powSubmissions - currentNodes
             t == (currentNodes * POW_CHANGE_PERCENT_TO_ADJ_DIFF)
                      \div ONE_HUNDRED_PERCENT
             adjustThreshold ==
                 IF t > MAX_ADJUST_THRESHOLD THEN MAX_ADJUST_THRESHOLD ELSE t
         IN  IF Abs(submissionsDiff) < adjustThreshold
             THEN IF submissionsDiff > 0 /\ powSubmissions > NUM_NETWORK_NODE
                  THEN 1
                  ELSE IF submissionsDiff < 0
                          /\ powSubmissions < NUM_NETWORK_NODE
                  THEN -1
                  ELSE 0
             ELSE SafeDivOrZero(submissionsDiff, adjustThreshold)
    ELSE 0

\* lines 653-661
RestrictedAdjustment(adjustment) ==
    IF adjustment > MAX_ADJUST_STEP
    THEN MAX_ADJUST_STEP
    ELSE IF adjustment < -MAX_ADJUST_STEP
    THEN -MAX_ADJUST_STEP
    ELSE adjustment

\* lines 668-674
estimatedBlocksOneYear ==
    LET e == (365 * 24 * 3600)
                \div ((POW_WINDOW_IN_SECONDS \div NUM_FINAL_BLOCK_PER_POW)
                      + (TX_DISTRIBUTE_TIME_IN_MS \div 1000))
    IN  (e \div NUM_FINAL_BLOCK_PER_POW) * NUM_FINAL_BLOCK_PER_POW

\* lines 677-679: the yearly increase is due at this epoch
AtOneYearEpoch(currentEpochNum) ==
    /\ currentEpochNum \div estimatedBlocksOneYear
          <= MAX_INCREASE_DIFFICULTY_YEARS
    /\ currentEpochNum % estimatedBlocksOneYear = 0

\* CalculateNewDifficulty, lines 584-687.  powSubmissions is
\* m_allPoWs.size() and currentNodes the sum of the shard sizes, both read
\* under m_mutexAllPOW; currentEpochNum is m_mediator.m_currentEpochNum.
\* The difficulty is a uint8_t: the sum of line 663 is cast to it, and the
\* increment of line 684 is made in it.
CalculateNewDifficulty(currentDifficulty, powSubmissions, currentNodes, currentEpochNum) ==
    LET adjustment ==
            RestrictedAdjustment(RawAdjustment(powSubmissions, currentNodes))
        newDifficulty ==
            Max(Uint8(adjustment + currentDifficulty), Uint8(POW_DIFFICULTY))
    IN  IF AtOneYearEpoch(currentEpochNum)
        THEN Uint8(newDifficulty + 1)
        ELSE newDifficulty

\* the inputs: every difficulty a uint8_t holds; submission and node counts
\* that give no adjustment, a small one, a large one, a capped threshold
\* and a refused division; epochs at and off the turn of a year, at the
\* tenth year and past it
Difficulties == 0 .. 255

SubmissionCounts == {0, 1, 9, 14, 40}

NodeCounts == {0, 1, 8, 12, 20, 300}

EpochNums ==
    {0, 1, estimatedBlocksOneYear, estimatedBlocksOneYear + 1,
     10 * estimatedBlocksOneYear, 11 * estimatedBlocksOneYear}

\* the DS leader computes the difficulty of the next DS block; one call is
\* looked at, with the value its local variable adjustment has at line 661
CallCalculateNewDifficulty(d, s, n, e) ==
    /\ probe = NoProbe
    /\ probe' = [op |-> "CalculateNewDifficulty", currentDifficulty |-> d,
                 powSubmissions |-> s, currentNodes |-> n,
                 currentEpochNum |-> e,
                 adjustment |->
                     RestrictedAdjustment(RawAdjustment(s, n)),
                 result |-> CalculateNewDifficulty(d, s, n, e)]
    /\ UNCHANGED <<m_state, m_mode, m_viewChangeCounter, pool, m_mutexAllPOW,
                   m_mutexAllPoWConns, lastDSBlock, calls, cleanPc,
                   dsinfo, executed,
                   threadAt>>

NextDifficulty ==
    /\ probe = NoProbe
    /\ \E d \in Difficulties, s \in SubmissionCounts, n \in NodeCounts,
          e \in EpochNums : CallCalculateNewDifficulty(d, s, n, e)

SpecDifficulty == Init /\ [][NextDifficulty]_vars

(* ---------------- the gate of ProcessPoWSubmission alone --------------- *)

\* well-formed submissions cut to the lengths around the size check: one
\* byte under the length line 351 asks for, that length, and the full body
WireMsgs ==
    {[g EXCEPT !.len = l] :
        g \in GoodMsgs,
        l \in {PoWSubmissionMinLen - 1, PoWSubmissionMinLen, FullBodyLen}}

\* a message arrives at a node in some state and mode and passes lines
\* 344-361 and 147-188; these lines write no member.  The call as it leaves
\* them is noted.
CallGate(m, keyOK) ==
    /\ probe' = [op |-> "Gate", msg |-> m,
                 result |-> Gate(m, keyOK, AtLimit(m.key))]
    /\ UNCHANGED <<m_state, m_mode, m_viewChangeCounter, pool, m_mutexAllPOW,
                   m_mutexAllPoWConns, lastDSBlock, calls, cleanPc,
                   dsinfo, executed,
                   threadAt>>

NextGate == \E m \in WireMsgs, keyOK \in BOOLEAN : CallGate(m, keyOK)

SpecGate == InitCheckState /\ [][NextGate]_vars

(* ------------------- the mutexes of the PoW pool ---------------------- *)

Mutexes ==
    {"m_mutexAllPOW", "m_mutexAllPoWConns", "m_mutexAllDSPOWs",
     "m_mutexAllPoWCounter"}

\* a place in the code of a thread: the mutexes the thread holds there and
\* the places it goes on to.  A thread goes on to a place when the mutexes
\* it holds there and not yet here are free, and takes them together.
Place(holds, next) == [holds |-> holds, next |-> next]

\* ParseMessageAndVerifyPOW, PoWProcessing.cpp:214-262.
\*   limit    line 214, before CheckPoWSubmissionExceedsLimitsForNode
\*   limited  line 282, m_mutexAllPoWCounter held, released on return; the
\*            call returns false, or fails or is late at lines 220-233, or
\*            goes on
\*   lock     lines 238-240, before std::lock, which takes the two pool
\*            mutexes together
\*   record   lines 245-256, both held; AddDSPoWs follows for a DS-tier
\*            solution, the counter for every solution
\*   dspows   line 368, AddDSPoWs holds m_mutexAllDSPOWs
\*   recorded line 259, AddDSPoWs has returned
\*   counter  line 295, UpdatePoWSubmissionCounterforNode holds
\*            m_mutexAllPoWCounter
\*   unlock   line 262, before the guards g and g2 release the pool mutexes
ProcessPoWSubmissionLocks(at) ==
    CASE at = "idle" -> Place({}, {"limit"})
      [] at = "limit" -> Place({}, {"limited"})
      [] at = "limited" -> Place({"m_mutexAllPoWCounter"}, {"idle", "lock"})
      [] at = "lock" -> Place({}, {"record"})
      [] at = "record" ->
            Place({"m_mutexAllPOW", "m_mutexAllPoWConns"},
                  {"dspows", "counter"})
      [] at = "dspows" ->
            Place({"m_mutexAllPOW", "m_mutexAllPoWConns", "m_mutexAllDSPOWs"},
                  {"recorded"})
      [] at = "recorded" ->
            Place({"m_mutexAllPOW", "m_mutexAllPoWConns"}, {"counter"})
      [] at = "counter" ->
            Place({"m_mutexAllPOW", "m_mutexAllPoWConns",
                   "m_mutexAllPoWCounter"}, {"unlock"})
      [] at = "unlock" ->
            Place({"m_mutexAllPOW", "m_mutexAllPoWConns"}, {"idle"})

\* a CleanVariables that clears m_allPoWs inside clearDSPoWSolns, with
\* m_mutexAllDSPOWs held
CleanVariablesLocksNested(at) ==
    CASE at = "idle" -> Place({}, {"dspows"})
      [] at = "dspows" -> Place({"m_mutexAllDSPOWs"}, {"pows"})
      [] at = "pows" ->
            Place({"m_mutexAllDSPOWs", "m_mutexAllPOW"}, {"cleared"})
      [] at = "cleared" -> Place({}, {"counter"})
      [] at = "counter" -> Place({"m_mutexAllPoWCounter"}, {"idle"})

\* CleanVariables, part_000:377-398: m_allPoWConns is cleared under no
\* mutex; m_allPoWs under m_mutexAllPOW (391-394); clearDSPoWSolns holds
\* m_mutexAllDSPOWs and ResetPoWSubmissionCounter m_mutexAllPoWCounter,
\* each released (lines 394, 396) before the next is taken
CleanVariablesLocks(at) ==
    CASE at = "idle" -> Place({}, {"pows"})
      [] at = "pows" -> Place({"m_mutexAllPOW"}, {"clearDSPoWSolns"})
      [] at = "clearDSPoWSolns" -> Place({}, {"dspows"})
      [] at = "dspows" -> Place({"m_mutexAllDSPOWs"}, {"cleared"})
      [] at = "cleared" -> Place({}, {"counter"})
      [] at = "counter" -> Place({"m_mutexAllPoWCounter"}, {"idle"})

\* CalculateNewDifficulty, part_000:592-601: the sizes are read under
\* m_mutexAllPOW
CalculateNewDifficultyLocks(at) ==
    CASE at = "idle" -> Place({}, {"pows"})
      [] at = "pows" -> Place({"m_mutexAllPOW"}, {"idle"})

\* GetAllDSPoWs, GetDSPoWSoln, IsNodeSubmittedDSPoWSoln,
\* PoWProcessing.cpp:371-400: each under m_mutexAllDSPOWs
GetAllDSPoWsLocks(at) ==
    CASE at = "idle" -> Place({}, {"dspows"})
      [] at = "dspows" -> Place({"m_mutexAllDSPOWs"}, {"idle"})

\* the place thread t is at when it is at the place named at
PlaceOf(t, at) ==
    IF t \in Workers THEN ProcessPoWSubmissionLocks(at)
    ELSE IF t = "CleanVariables" THEN CleanVariablesLocks(at)
    ELSE IF t = "CalculateNewDifficulty" THEN CalculateNewDifficultyLocks(at)
    ELSE GetAllDSPoWsLocks(at)

\* the mutexes thread t holds
Holds(t) == PlaceOf(t, threadAt[t]).holds

\* the mutexes thread t must take to go on to the place named next
Takes(t, next) == PlaceOf(t, next).holds \ Holds(t)

\* thread t goes on: a std::mutex is taken when no thread holds it, and
\* the thread waits otherwise
LockStep(t) ==
    \E next \in PlaceOf(t, threadAt[t]).next :
        /\ \A u \in LockThreads : Takes(t, next) \cap Holds(u) = {}
        /\ threadAt' = [threadAt EXCEPT ![t] = next]
        /\ m_mutexAllPOW' =
              \E u \in LockThreads :
                  "m_mutexAllPOW" \in PlaceOf(u, threadAt'[u]).holds
        /\ m_mutexAllPoWConns' =
              \E u \in LockThreads :
                  "m_mutexAllPoWConns" \in PlaceOf(u, threadAt'[u]).holds
        /\ UNCHANGED <<m_state, m_mode, m_viewChangeCounter, pool,
                       lastDSBlock, calls, cleanPc, probe, dsinfo, executed>>

NextLocks == \E t \in LockThreads : LockStep(t)

SpecLocks == Init /\ [][NextLocks]_vars

(* ------------------------ resynchronisation --------------------------- *)

\* thread t goes to the place named at
MovesTo(t, at) == threadAt' = [threadAt EXCEPT ![t] = at]

\* RejoinAsDS, lines 414-436: when the node is synchronised and a backup,
\* the function of lines 428-433 is detached; the call has no effect
\* otherwise
RejoinAsDS(t) ==
    /\ ~LOOKUP_NODE_MODE
    /\ threadAt[t] = "idle"
    /\ IF m_syncType = NO_SYNC /\ m_mode = BACKUP_DS
       THEN MovesTo(t, "func")
       ELSE UNCHANGED threadAt
    /\ UNCHANGED <<m_state, m_mode, m_viewChangeCounter, pool, m_mutexAllPOW,
                   m_mutexAllPoWConns, lastDSBlock, calls, cleanPc, probe,
                   dsinfo, executed>>

\* line 429, in the detached function: m_syncType = SyncType::DS_SYNC
RejoinSetsSyncType(t) ==
    /\ threadAt[t] = "func"
    /\ m_syncType' = DS_SYNC
    /\ MovesTo(t, "install")
    /\ UNCHANGED <<m_state, m_mode, m_viewChangeCounter, pool, m_mutexAllPOW,
                   m_mutexAllPoWConns, lastDSBlock, calls, cleanPc, probe,
                   m_consensusMyID, m_consensusLeaderID, m_DSCommittee,
                   executed>>

\* lines 430-432 and 58-110: Node::CleanVariables and Node::Install, which
\* write no member of the directory service, then StartSynchronization:
\* CleanVariables (lines 365-412, here in one step) and the detached
\* function of lines 74-108
StartSynchronization(t) ==
    /\ ~LOOKUP_NODE_MODE
    /\ threadAt[t] = "install"
    /\ m_allPoWConns' = EmptyMap
    /\ m_allPoWs' = EmptyMap
    /\ m_allDSPoWs' = EmptyMap
    /\ m_AllPoWCounter' = EmptyMap
    /\ m_viewChangeCounter' = 0
    /\ m_mode' = IDLE
    /\ m_consensusLeaderID' = 0
    /\ MovesTo(t, "fetch")
    /\ UNCHANGED <<m_state, m_mutexAllPOW, m_mutexAllPoWConns, lastDSBlock,
                   calls, cleanPc, probe, m_syncType, m_consensusMyID,
                   m_DSCommittee, executed>>

\* lines 75-90: FetchOfflineLookups and the wait for the answer, of at
\* most POW_WINDOW_IN_SECONDS; on a timeout the function logs and returns,
\* and the thread ends
FetchOfflineLookups(t, fetched) ==
    /\ threadAt[t] = "fetch"
    /\ MovesTo(t, IF fetched THEN "sync" ELSE "idle")
    /\ UNCHANGED <<m_state, m_mode, m_viewChangeCounter, pool, m_mutexAllPOW,
                   m_mutexAllPoWConns, lastDSBlock, calls, cleanPc, probe,
                   dsinfo, executed>>

\* lines 92-107: the blocks are fetched again and again while m_syncType
\* is not NO_SYNC; the function returns when it is
SynchronizationEnds(t) ==
    /\ threadAt[t] = "sync"
    /\ m_syncType = NO_SYNC
    /\ MovesTo(t, "idle")
    /\ UNCHANGED <<m_state, m_mode, m_viewChangeCounter, pool, m_mutexAllPOW,
                   m_mutexAllPoWConns, lastDSBlock, calls, cleanPc, probe,
                   dsinfo, executed>>

\* the lookup answers the fetches of lines 94-105 until the node has
\* caught up, sets m_syncType to NO_SYNC and calls FinishRejoinAsDS
\* (lines 438-474)
LookupCatchesUp ==
    /\ \E t \in RejoinThreads : threadAt[t] = "sync"
    /\ m_syncType # NO_SYNC
    /\ m_syncType' = NO_SYNC
    /\ m_mode' = BACKUP_DS
    /\ m_consensusMyID' = IndexOfSelf(m_DSCommittee)
    /\ UNCHANGED <<m_state, m_viewChangeCounter, pool, m_mutexAllPOW,
                   m_mutexAllPoWConns, lastDSBlock, calls, cleanPc, probe,
                   m_consensusLeaderID, m_DSCommittee, executed, threadAt>>

\* the DS committees a lookup may report: this node still in it, or
\* replaced while it was behind
SeedCommittees == {<<"ds1", "ds2", "ds3">>, <<"ds1", "ds3", "ds4">>}

\* the answer to FetchDSInfo (line 92): the lookup reports the DS committee
\* of the network, which becomes m_mediator.m_DSCommittee
SetDSInfoFromSeed(committee) ==
    /\ \E t \in RejoinThreads : threadAt[t] = "sync"
    /\ m_syncType # NO_SYNC
    /\ m_DSCommittee' = committee
    /\ UNCHANGED <<m_state, m_mode, m_viewChangeCounter, pool, m_mutexAllPOW,
                   m_mutexAllPoWConns, lastDSBlock, calls, cleanPc, probe,
                   m_syncType, m_consensusMyID, m_consensusLeaderID,
                   executed, threadAt>>

\* a node that runs, in any mode and state
InitResync ==
    /\ m_state \in DirState
    /\ m_mode \in Mode
    /\ m_consensusLeaderID \in LeaderIDs
    /\ m_viewChangeCounter \in RawCounters
    /\ m_syncType = NO_SYNC
    /\ Constructed

NextResync ==
    \/ \E t \in RejoinThreads : RejoinAsDS(t)
    \/ \E t \in RejoinThreads : RejoinSetsSyncType(t)
    \/ \E t \in RejoinThreads : StartSynchronization(t)
    \/ \E t \in RejoinThreads, fetched \in BOOLEAN :
          FetchOfflineLookups(t, fetched)
    \/ \E t \in RejoinThreads : SynchronizationEnds(t)
    \/ \E committee \in SeedCommittees : SetDSInfoFromSeed(committee)
    \/ LookupCatchesUp
    \/ Execute(0)

SpecResync == InitResync /\ [][NextResync]_vars

\* every detached function goes on, and the lookups answer: a thread that
\* waits for them again and again is answered in the end
FairResync ==
    /\ \A t \in RejoinThreads :
          /\ WF_vars(RejoinSetsSyncType(t))
          /\ WF_vars(StartSynchronization(t))
          /\ WF_vars(\E fetched \in BOOLEAN : FetchOfflineLookups(t, fetched))
          /\ SF_vars(FetchOfflineLookups(t, TRUE))
          /\ WF_vars(SynchronizationEnds(t))
    /\ WF_vars(LookupCatchesUp)

SpecResyncFair == SpecResync /\ FairResync

(* ---------------------------- properties ------------------------------ *)

\* the six pairs of the permission table, as the specification lists them
PermittedPairs ==
    {<<"POW_SUBMISSION", "PROCESS_POWSUBMISSION">>,
     <<"POW_SUBMISSION", "VERIFYPOW">>,
     <<"DSBLOCK_CONSENSUS", "PROCESS_DSBLOCKCONSENSUS">>,
     <<"MICROBLOCK_SUBMISSION", "PROCESS_MICROBLOCKSUBMISSION">>,
     <<"FINALBLOCK_CONSENSUS", "PROCESS_FINALBLOCKCONSENSUS">>,
     <<"VIEWCHANGE_CONSENSUS", "PROCESS_VIEWCHANGECONSENSUS">>}

\* this step is a step of a worker thread taking its call from c to d
WorkerStep(c, d) ==
    /\ cleanPc' = cleanPc
    /\ CopiesIn(c, calls) > CopiesIn(c, calls')
    /\ CopiesIn(d, calls') > CopiesIn(d, calls)

\* this step begins a call, which it leaves as d
Entered(d) ==
    /\ BagCardinality(calls') > BagCardinality(calls)
    /\ CopiesIn(d, calls') > CopiesIn(d, calls)

\* map new holds an entry that map old does not hold
Gains(old, new) ==
    \E k \in DOMAIN new : k \notin DOMAIN old \/ new[k] # old[k]

\* this step inserts into the PoW pool
Insertion ==
    \/ Gains(m_allPoWConns, m_allPoWConns')
    \/ Gains(m_allPoWs, m_allPoWs')
    \/ Gains(m_allDSPoWs, m_allDSPoWs')
    \/ Gains(m_AllPoWCounter, m_AllPoWCounter')

PoolEmpty ==
    /\ m_allPoWConns = EmptyMap
    /\ m_allPoWs = EmptyMap
    /\ m_allDSPoWs = EmptyMap
    /\ m_AllPoWCounter = EmptyMap

\* C1, as the code has it: on a DS node whose mode is not IDLE, CheckState(a)
\* called in state s returns true exactly when (s, a) is one of the six
\* permitted pairs; in mode IDLE it returns false for every pair; the call
\* changes no member.
C1_CheckStateTable ==
    [][probe'.op = "CheckState" =>
          /\ probe'.result <=>
                (m_mode # IDLE /\ <<m_state, probe'.action>> \in PermittedPairs)
          /\ UNCHANGED <<m_state, m_mode, m_viewChangeCounter, pool, calls,
                   dsinfo, executed,
                   threadAt>>
      ]_vars

\* C1 witness: a permitted pair has been accepted
C1_Witness ==
    /\ probe.op = "CheckState"
    /\ probe.result
    /\ <<m_state, probe.action>> \in PermittedPairs

\* C1 as stated: CheckState(a) called in state s returns true if and only
\* if (s, a) is one of the six permitted pairs, and changes no state.
C1_AsStated ==
    [][probe'.op = "CheckState" =>
          /\ probe'.result <=> (<<m_state, probe'.action>> \in PermittedPairs)
          /\ UNCHANGED <<m_state, m_mode, m_viewChangeCounter, pool, calls,
                   dsinfo, executed,
                   threadAt>>
      ]_vars

\* C2 as stated: in every reachable state the submission count of every
\* public key is at most POW_SUBMISSION_LIMIT.
C2_CountWithinLimit ==
    \A k \in DOMAIN m_AllPoWCounter :
        m_AllPoWCounter[k] <= POW_SUBMISSION_LIMIT

\* C3 as stated: every insertion into the PoW pool happens at a moment when
\* the DS state is POW_SUBMISSION.
C3_InsertOnlyInPoWSubmission ==
    [][Insertion => m_state = POW_SUBMISSION]_vars

\* the two difficulties a submission for the next DS block may carry
ExpectedDifficulties ==
    IF lastDSBlock.blockNum + 1 = 1
    THEN {POW_DIFFICULTY, DS_POW_DIFFICULTY}
    ELSE {lastDSBlock.difficulty, lastDSBlock.dsDifficulty}

\* the message is for the next DS block at an expected difficulty
Admissible(m) ==
    /\ m.blockNum = lastDSBlock.blockNum + 1
    /\ m.difficulty \in ExpectedDifficulties

\* the call's message is admissible and both verifiers accepted it
Verified(c) == Admissible(c.msg) /\ c.sigOK /\ c.powOK

\* C4, as the code has it: only a call whose submission is for block
\* last + 1, carries an expected difficulty, and passed the signature and
\* the PoW verifier inserts into the pool.  A call whose submission fails
\* one of these changes no pool map, and returns false unless the first
\* VERIFYPOW check drops it as too late, before anything of it is verified:
\* then it returns true.
C4_RecordOnlyIfVerified ==
    [][/\ \A c \in BagToSet(calls), d \in BagToSet(calls') :
            WorkerStep(c, d) =>
              /\ Insertion => Verified(c)
              /\ d.pc = "recheck" => Verified(d)
              /\ d.reason = "InvalidPoW" => ~d.result /\ pool' = pool
              /\ (c.pc # "done" /\ ~Admissible(c.msg)) =>
                    /\ pool' = pool
                    /\ d.pc = "done" => (~d.result \/ d.reason = "TooLate")
       /\ \A d \in BagToSet(calls') :
            Entered(d) => pool' = pool /\ (d.pc = "done" => ~d.result)
      ]_vars

\* C4 witness: a verified submission has been recorded, and a submission
\* that failed verification has been refused
C4_Witness ==
    /\ \E d \in Running : d.reason = "Recorded"
    /\ \E d \in Running : d.reason = "InvalidPoW"
    /\ "pk1" \in DOMAIN m_allPoWs

\* C4 as stated: only a fresh, signed, expected-difficulty, PoW-verified
\* submission inserts; a call whose submission fails one of these returns
\* false and changes no pool map.
C4_AsStated ==
    [][/\ \A c \in BagToSet(calls), d \in BagToSet(calls') :
            WorkerStep(c, d) =>
              /\ Insertion => Verified(c)
              /\ d.pc = "recheck" => Verified(d)
              /\ d.reason = "InvalidPoW" => ~d.result /\ pool' = pool
              /\ (c.pc # "done" /\ ~Admissible(c.msg)) =>
                    /\ pool' = pool
                    /\ d.pc = "done" => ~d.result
       /\ \A d \in BagToSet(calls') :
            Entered(d) => pool' = pool /\ (d.pc = "done" => ~d.result)
      ]_vars

\* C5, as the code has it: a call begun when the submitter's count had
\* reached POW_SUBMISSION_LIMIT, the counter not reset since, changes no pool
\* map, and returns false unless the first VERIFYPOW check drops it as too
\* late: then it returns true.  The rate-limit check refuses every call
\* that finds the count at the limit.  Each recorded submission leaves its
\* hash as the submitter's one record and adds one to the count, so three
\* sequential valid submissions under limit 2 end with count 2, the second
\* hash on record and the third call refused.
C5_RateLimit ==
    [][\A c \in BagToSet(calls), d \in BagToSet(calls') :
            WorkerStep(c, d) =>
              /\ c.atLimit =>
                    /\ pool' = pool
                    /\ d.pc = "done" => (~d.result \/ d.reason = "TooLate")
              /\ (c.pc = "limit" /\ AtLimit(c.msg.key)) =>
                    d = Returned(FALSE, "ExceededLimit")
              /\ c.pc = "counter" =>
                    /\ c.msg.key \in DOMAIN m_allPoWs'
                    /\ m_allPoWs'[c.msg.key] = c.msg.hash
                    /\ m_AllPoWCounter'[c.msg.key] =
                          IF c.msg.key \in DOMAIN m_AllPoWCounter
                          THEN m_AllPoWCounter[c.msg.key] + 1 ELSE 1
      ]_vars

\* C5 witness: with the count at the limit and the later hash on record, a
\* further submission has been refused by the rate limit
C5_Witness ==
    /\ AtLimit("pk1")
    /\ m_AllPoWCounter["pk1"] = POW_SUBMISSION_LIMIT
    /\ "pk1" \in DOMAIN m_allPoWs
    /\ m_allPoWs["pk1"] = "h2"
    /\ m_allPoWConns = [k \in {"pk1"} |-> Peer(FromIP, 1)]
    /\ \E d \in Running : d.reason = "ExceededLimit" /\ ~d.result

\* C5 as stated: once the count has reached the limit, every further call
\* for that key in the same epoch returns false and changes no pool map.
C5_AsStated ==
    [][\A c \in BagToSet(calls), d \in BagToSet(calls') :
            WorkerStep(c, d) =>
              /\ c.atLimit =>
                    /\ pool' = pool
                    /\ d.pc = "done" => ~d.result
              /\ (c.pc = "limit" /\ AtLimit(c.msg.key)) =>
                    d = Returned(FALSE, "ExceededLimit")
              /\ c.pc = "counter" =>
                    /\ c.msg.key \in DOMAIN m_allPoWs'
                    /\ m_allPoWs'[c.msg.key] = c.msg.hash
                    /\ m_AllPoWCounter'[c.msg.key] =
                          IF c.msg.key \in DOMAIN m_AllPoWCounter
                          THEN m_AllPoWCounter[c.msg.key] + 1 ELSE 1
      ]_vars

\* C6: a call made while the DS state is neither POW_SUBMISSION nor
\* FINALBLOCK_CONSENSUS returns false at the gate; one made in
\* FINALBLOCK_CONSENSUS waits, and returns false at the gate when the state
\* is not POW_SUBMISSION as the wait ends; neither changes a pool map.
C6_WrongStateGate ==
    [][/\ \A d \in BagToSet(calls') :
            Entered(d) =>
              /\ pool' = pool
              /\ m_state = FINALBLOCK_CONSENSUS => d.pc = "wait"
              /\ m_state \notin {POW_SUBMISSION, FINALBLOCK_CONSENSUS} =>
                    d = Returned(FALSE, "NotAtPoWSubmission")
       /\ \A c \in BagToSet(calls), d \in BagToSet(calls') :
            (WorkerStep(c, d) /\ c.pc = "wait") =>
              /\ pool' = pool
              /\ m_state # POW_SUBMISSION =>
                    d = Returned(FALSE, "NotAtPoWSubmission")
      ]_vars

\* C6 witness: on a committee member in state DSBLOCK_CONSENSUS a call has
\* been refused at the gate, the pool holding nothing
C6_Witness ==
    /\ m_state = DSBLOCK_CONSENSUS
    /\ m_mode # IDLE
    /\ PoolEmpty
    /\ \E d \in Running : d = Returned(FALSE, "NotAtPoWSubmission")

\* C7: a call that finds the state other than POW_SUBMISSION at one of its
\* two VERIFYPOW checks, the gate passed, returns true there and changes
\* no pool map.
C7_LateDrop ==
    [][\A c \in BagToSet(calls), d \in BagToSet(calls') :
            (/\ WorkerStep(c, d)
             /\ c.pc \in {"early", "recheck"}
             /\ m_state # POW_SUBMISSION) =>
              /\ d.pc = "done"
              /\ d.result
              /\ pool' = pool
      ]_vars

\* C7 witness: a verified submission has been dropped by the second check
\* and the call has returned true
C7_Witness ==
    /\ m_state # POW_SUBMISSION
    /\ \E d \in Running : d = Returned(TRUE, "TooLateAfterVerify")

\* C8: in mode IDLE CheckState is false for every action in every state,
\* and a call whose gate is evaluated in mode IDLE returns false and
\* changes no pool map.
C8_IdleRejects ==
    [][(m_mode = IDLE /\ calls' # calls) =>
          /\ \A s \in DirState, a \in Action : ~CheckState(m_mode, s, a)
          /\ \A d \in BagToSet(calls') :
                Entered(d) =>
                  /\ pool' = pool
                  /\ \/ d = Returned(FALSE, "NotAtPoWSubmission")
                     \/ d.pc = "wait" /\ m_state = FINALBLOCK_CONSENSUS
          /\ \A c \in BagToSet(calls), d \in BagToSet(calls') :
                (WorkerStep(c, d) /\ c.pc = "wait") =>
                  /\ pool' = pool
                  /\ d = Returned(FALSE, "NotAtPoWSubmission")
      ]_vars

\* C8 witness: in mode IDLE and state POW_SUBMISSION a call has been refused
\* at the gate
C8_Witness ==
    /\ m_mode = IDLE
    /\ m_state = POW_SUBMISSION
    /\ cleanPc = "idle"
    /\ \E d \in Running : d = Returned(FALSE, "NotAtPoWSubmission")

\* C9 as stated: when CleanVariables returns, the four pool maps are empty
\* and m_viewChangeCounter is 0.
C9_CleanLeavesEmpty ==
    [][(cleanPc = "tail" /\ cleanPc' = "idle") =>
          PoolEmpty' /\ m_viewChangeCounter' = 0]_vars

\* the call holds m_mutexAllPOW and m_mutexAllPoWConns
HoldsPoolLocks(c) == c.pc \in {"conns", "pows", "dspows", "counter"}

\* CleanVariables has cleared some of the four maps, and a map it has not
\* reached yet holds an entry
PartlyCleaned ==
    \/ cleanPc = "pows" /\ m_allPoWs # EmptyMap
    \/ cleanPc \in {"pows", "dspows"} /\ m_allDSPoWs # EmptyMap
    \/ cleanPc \in {"pows", "dspows", "counter"} /\ m_AllPoWCounter # EmptyMap

\* C10 as stated: no call that holds the pool locks is ever in a state in
\* which CleanVariables has cleared some of the four maps and not the others.
C10_AtomicReset ==
    \A c \in Running : HoldsPoolLocks(c) => ~PartlyCleaned


\* C11: when testnet mode is enabled and the submitter's (peer, pubkey) is
\* not in the DS whitelist, ProcessPoWSubmission rejects the submission: the
\* call creates no pool record and returns false, even with a valid
\* signature, difficulty and PoW.
C11_WhitelistRejects ==
    [][\A c \in Running : \A d \in BagToSet(calls') :
          ( /\ WorkerStep(c, d)
            /\ c.pc # "done"
            /\ TEST_NET_MODE
            /\ ~IsNodeInDSWhiteList(Peer(FromIP, c.msg.port), c.msg.key) )
          => /\ ~Insertion
             /\ d.pc = "done" => ~d.result]_vars


\* C12: ProcessPoWSubmission rejects every message whose body is shorter
\* than the full wire schema (8 + 1 + 4 + 33 + 8 + 32 + 32 + 32 + 32 bytes)
\* before any field is parsed or verified: such a message leaves the gate
\* as a call that has returned false.
C12_ShortRejected ==
    (probe.op = "Gate" /\ probe.msg.len < FullBodyLen)
        => (probe.result.pc = "done" /\ ~probe.result.result)


(* ------------------------- claims on Execute -------------------------- *)

\* this step is a call of Execute
ExecuteStep == executed' # executed

\* the registers and the pool that a dropped message must leave alone
Untouched ==
    /\ m_state' = m_state
    /\ m_mode' = m_mode
    /\ pool' = pool
    /\ calls' = calls
    /\ dsinfo' = dsinfo

\* C13: while the synchronisation type is not NO_SYNC, Execute drops every
\* message whatever its opcode: it returns false, invokes no handler, and
\* leaves the state, the mode and the PoW pool unchanged.
C13_SyncDrops ==
    [][(ExecuteStep /\ m_syncType # NO_SYNC)
          => /\ executed'.handler = "none"
             /\ executed'.returned /\ ~executed'.result
             /\ Untouched]_vars

\* a PoW submission was dropped while the node was synchronising
C13_Witness ==
    /\ m_syncType = DS_SYNC
    /\ m_mode # IDLE
    /\ m_state = POW_SUBMISSION
    /\ executed.ins_byte = 1
    /\ executed.handler = "none"

\* the dispatch table of the specification
ExpectedHandlers ==
    <<"ProcessSetPrimary", "ProcessPoWSubmission", "ProcessDSBlockConsensus",
      "ProcessMicroblockSubmission", "ProcessFinalBlockConsensus",
      "ProcessViewChangeConsensus">>

\* C14: with the synchronisation type NO_SYNC, Execute dispatches opcodes
\* 0..4 to ProcessSetPrimary, ProcessPoWSubmission, ProcessDSBlockConsensus,
\* ProcessMicroblockSubmission and ProcessFinalBlockConsensus and returns
\* the handler's result; opcode 5 reaches ProcessViewChangeConsensus on a
\* non-lookup node only; every other opcode (5 on a lookup node included)
\* invokes no handler, changes no state and returns false.
C14_Dispatch ==
    [][(ExecuteStep /\ m_syncType = NO_SYNC)
          => LET i == executed'.ins_byte
                 h == executed'.handler IN
             /\ i \in 0 .. 4 => h = ExpectedHandlers[i + 1]
             /\ i = 5 => h = IF LOOKUP_NODE_MODE THEN "none"
                                                ELSE ExpectedHandlers[6]
             /\ i > 5 => h = "none"
             /\ h = "none" =>
                    executed'.returned /\ ~executed'.result /\ Untouched
             /\ h = "ProcessPoWSubmission" =>
                    (\E d \in BagToSet(calls') : Entered(d))
             /\ h = "ProcessSetPrimary" =>
                    (executed'.result <=> executed'.deserialized)
             /\ (h \in {ExpectedHandlers[k] : k \in 3 .. 6}
                    /\ executed'.result) =>
                    CheckState(m_mode, m_state, ActionOf(h))
             /\ InsHandlers(FALSE) = ExpectedHandlers
             /\ InsHandlers(TRUE) = SubSeq(ExpectedHandlers, 1, 5)]_vars

\* a view-change message was dispatched to its handler and accepted
C14_Witness ==
    /\ m_syncType = NO_SYNC
    /\ executed.ins_byte = 5
    /\ executed.handler = "ProcessViewChangeConsensus"
    /\ executed.returned /\ executed.result
    /\ m_state = VIEWCHANGE_CONSENSUS
    /\ m_mode = PRIMARY_DS

\* C15: ProcessSetPrimary takes effect only during bootstrap: an opcode-0
\* message dispatched after the node has left the mode IDLE does not change
\* the mode, m_consensusMyID, the leader or the committee, and starts no
\* further DS-block consensus round (which the handler does on its way to
\* returning true).
C15_BootstrapOnly ==
    [][(ExecuteStep /\ executed'.ins_byte = 0 /\ m_mode # IDLE)
          => /\ m_mode' = m_mode
             /\ m_consensusMyID' = m_consensusMyID
             /\ m_consensusLeaderID' = m_consensusLeaderID
             /\ m_DSCommittee' = m_DSCommittee
             /\ ~(executed'.handler = "ProcessSetPrimary"
                    /\ executed'.result)]_vars

\* C16: after ProcessSetPrimary with a well-formed peer the mode is
\* PRIMARY_DS if and only if the announced primary is the node's own peer,
\* and BACKUP_DS otherwise, and the leader is 0; a message whose peer cannot
\* be deserialized returns false and leaves mode and leader unchanged.
C16_SetPrimaryMode ==
    [][(ExecuteStep /\ executed'.handler = "ProcessSetPrimary")
          => IF executed'.deserialized
             THEN /\ executed'.result
                  /\ m_mode' = PRIMARY_DS
                        <=> executed'.primary = m_selfPeer.ip
                  /\ m_mode' \in {PRIMARY_DS, BACKUP_DS}
                  /\ m_consensusLeaderID' = 0
             ELSE /\ ~executed'.result
                  /\ m_mode' = m_mode
                  /\ m_consensusLeaderID' = m_consensusLeaderID]_vars

\* the node was announced as primary and took its place in the committee
C16_Witness ==
    /\ executed.handler = "ProcessSetPrimary"
    /\ executed.deserialized
    /\ executed.primary = m_selfPeer.ip
    /\ m_mode = PRIMARY_DS
    /\ m_consensusLeaderID = 0
    /\ m_consensusMyID = 1


\* C17: immediately after the construction of a non-lookup DS node the
\* state is POW_SUBMISSION, the mode is IDLE, the leader is 0 and the
\* view-change counter is 0.
C17_AfterConstruction ==
    (~LOOKUP_NODE_MODE /\ probe.op = "DirectoryService")
        => /\ m_state = POW_SUBMISSION
           /\ m_mode = IDLE
           /\ m_consensusLeaderID = 0
           /\ m_viewChangeCounter = 0

\* a node has been constructed; m_consensusMyID holds what it held before
C17_Witness ==
    /\ probe.op = "DirectoryService"
    /\ m_consensusMyID = 2
    /\ m_state = POW_SUBMISSION


\* C18: SetState wakes waiters: whenever SetState changes the state to
\* POW_SUBMISSION, every ProcessPoWSubmission call blocked on
\* cv_POWSubmission at the FINALBLOCK_CONSENSUS gate is woken by it, so that
\* none is left waiting for POW_SUBMISSION_TIMEOUT, and goes on to the
\* action check.
C18_SetStateWakes ==
    [][(m_state # POW_SUBMISSION /\ m_state' = POW_SUBMISSION)
          => \A c \in BagToSet(calls') : c.pc # "wait"]_vars


(* ------------------- claims on repeated submissions ------------------- *)

\* the pool holds the record that the submission of call c makes: its
\* peer in m_allPoWConns and its hash in m_allPoWs
HoldsRecordOf(c) ==
    /\ c.msg.key \in DOMAIN m_allPoWConns
    /\ m_allPoWConns[c.msg.key] = Peer(FromIP, c.msg.port)
    /\ c.msg.key \in DOMAIN m_allPoWs
    /\ m_allPoWs[c.msg.key] = c.msg.hash

\* C19: dispatching the same well-formed, valid PoW submission twice in one
\* epoch leaves exactly one pool record for its pubkey, one entry in
\* m_allPoWs and one in m_allPoWConns with the hash and the peer they had
\* after the first dispatch: no step of a call whose submission is already
\* recorded changes either map, whether the call is turned away by the rate
\* limit or writes the same data again.
C19_SameSubmissionTwice ==
    [][\A c \in Running : \A d \in BagToSet(calls') :
          (WorkerStep(c, d) /\ c.pc # "done" /\ HoldsRecordOf(c))
          => /\ m_allPoWConns' = m_allPoWConns
             /\ m_allPoWs' = m_allPoWs]_vars

\* the same submission has been recorded twice in one epoch: two counted
\* submissions of pk1, one record, that of solution h1
C19_Witness ==
    /\ cleanPc = "idle"
    /\ "pk1" \in DOMAIN m_AllPoWCounter
    /\ m_AllPoWCounter["pk1"] = 2
    /\ DOMAIN m_allPoWs = {"pk1"}
    /\ m_allPoWs["pk1"] = "h1"
    /\ DOMAIN m_allPoWConns = {"pk1"}
    /\ m_allPoWConns["pk1"] = Peer(FromIP, 1)
    /\ m_allDSPoWs = EmptyMap


(* -------------------- claims on the difficulty ------------------------ *)

\* C20: for every current difficulty (8 bits), submission count, node
\* count and epoch, CalculateNewDifficulty returns a value that is at least
\* POW_DIFFICULTY.
C20_AtLeastMinimum ==
    probe.op = "CalculateNewDifficulty" => probe.result >= POW_DIFFICULTY

(* ---- C21 ----
   For every current difficulty d of 8 bits, every submission count, node
   count and epoch, the result r of CalculateNewDifficulty is within 2 of
   d, or within 3 of d when the yearly increase is due at that epoch. *)
C21_BoundedStep ==
    probe.op = "CalculateNewDifficulty"
        => Abs(probe.result - probe.currentDifficulty)
               <= (IF AtOneYearEpoch(probe.currentEpochNum) THEN 3 ELSE 2)

\* q is the quotient a / b rounded towards zero
TruncatingQuotient(q, a, b) ==
    /\ b # 0
    /\ Abs(a - q * b) < Abs(b)
    /\ (a - q * b) * a >= 0

Clamp(x) == IF x > 2 THEN 2 ELSE IF x < -2 THEN -2 ELSE x

\* the adjustment a follows the reference rule for the submission count s
\* and the node count n; zeroThreshold tells what the rule gives when
\* the threshold is 0, where no quotient exists
ReferenceRule(a, s, n, zeroThreshold) ==
    IF n = 0 \/ n = s
    THEN a = 0
    ELSE LET diff == s - n
             t == (n * POW_CHANGE_PERCENT_TO_ADJ_DIFF) \div 100
             threshold == IF t < 99 THEN t ELSE 99
         IN  IF Abs(diff) < threshold
             THEN a = (IF diff > 0 /\ s > NUM_NETWORK_NODE
                       THEN 1
                       ELSE IF diff < 0 /\ s < NUM_NETWORK_NODE
                       THEN -1
                       ELSE 0)
             ELSE IF threshold = 0
             THEN zeroThreshold
             ELSE \E q \in (0 - Abs(diff)) .. Abs(diff) :
                      /\ TruncatingQuotient(q, diff, threshold)
                      /\ a = Clamp(q)

(* ---- C22 ----
   The adjustment computed by CalculateNewDifficulty equals the reference
   rule: 0 when there are no active nodes or as many as submissions;
   otherwise, with diff = submissions - nodes and threshold = min(99,
   nodes * POW_CHANGE_PERCENT_TO_ADJ_DIFF / 100), it is +1, -1 or 0 when
   |diff| < threshold, and the truncating quotient diff / threshold when
   |diff| >= threshold, restricted to -2 .. 2.  As stated, the rule has no
   value when the threshold is 0. *)
C22_ReferenceRule ==
    probe.op = "CalculateNewDifficulty"
        => ReferenceRule(probe.adjustment, probe.powSubmissions,
                         probe.currentNodes, FALSE)

\* C22 as the code has it: the rule above, and an adjustment of 0 when the
\* threshold is 0 (the division is refused)
C22_ReferenceRuleOrZero ==
    probe.op = "CalculateNewDifficulty"
        => ReferenceRule(probe.adjustment, probe.powSubmissions,
                         probe.currentNodes, probe.adjustment = 0)

\* a quotient that truncation and rounding down tell apart, not restricted
C22_Witness ==
    /\ probe.op = "CalculateNewDifficulty"
    /\ probe.powSubmissions = 1
    /\ probe.currentNodes = 12
    /\ probe.adjustment = -1

\* the threshold is 0 and the division is refused
C22_ZeroThreshold ==
    /\ probe.op = "CalculateNewDifficulty"
    /\ probe.powSubmissions = 9
    /\ probe.currentNodes = 1
    /\ probe.adjustment = 0

\* blocks_per_year of the reference rule
BlocksPerYear ==
    LET perBlock == (POW_WINDOW_IN_SECONDS \div NUM_FINAL_BLOCK_PER_POW)
                        + (TX_DISTRIBUTE_TIME_IN_MS \div 1000)
        raw == 31536000 \div perBlock
    IN  raw - (raw % NUM_FINAL_BLOCK_PER_POW)

(* ---- C23 ----
   CalculateNewDifficulty adds exactly 1 to the floored, adjusted
   difficulty when epoch <= 10 * blocks_per_year and epoch mod
   blocks_per_year = 0, and adds nothing at every other epoch;
   blocks_per_year is 1 971 000 for 300 / 50 / 10000. *)
C23_YearlyIncrease ==
    probe.op = "CalculateNewDifficulty"
        => LET floored ==
                   Max(Uint8(probe.adjustment + probe.currentDifficulty),
                       POW_DIFFICULTY)
               due ==
                   /\ probe.currentEpochNum <= 10 * BlocksPerYear
                   /\ probe.currentEpochNum % BlocksPerYear = 0
           IN  /\ BlocksPerYear = 1971000
               /\ probe.result = floored + (IF due THEN 1 ELSE 0)

(* ---- C24 ----
   The three insertions of the record step (m_allPoWConns, m_allPoWs and,
   for a DS-tier submission, m_allDSPoWs) are observed together: when an
   insertion into m_allDSPoWs is there for GetAllDSPoWs to read, which
   takes m_mutexAllDSPOWs alone, the two pool mutexes are free, so that the
   other insertions of that submission can be read as well. *)
C24_ObservedTogether ==
    [][Gains(m_allDSPoWs, m_allDSPoWs')
          => ~m_mutexAllPOW' /\ ~m_mutexAllPoWConns']_vars

(* -------------------- claims on the mutexes --------------------------- *)

\* the mutexes thread t waits for: it goes on to no place without them
Wants(t) ==
    LET nexts == PlaceOf(t, threadAt[t]).next IN
    IF \E next \in nexts : Takes(t, next) = {}
    THEN {}
    ELSE UNION {Takes(t, next) : next \in nexts}

\* thread t waits for a mutex that thread u holds
WaitsFor(t, u) == Wants(t) \cap Holds(u) # {}

(* ---- C25 ----
   No deadlock is reachable among concurrent calls of ProcessPoWSubmission,
   CleanVariables, CalculateNewDifficulty and the accessors of m_allDSPoWs:
   there is never a set of threads each of which waits for a mutex held by
   a thread of the set. *)
C25_NoCyclicWait ==
    \A D \in SUBSET LockThreads :
        D # {} => \E t \in D : \A u \in D : ~WaitsFor(t, u)

\* a chain of waits: a worker waits for the pool mutexes of the other, which
\* waits for m_mutexAllDSPOWs, held by the accessor
C25_Witness ==
    /\ WaitsFor("w2", "w1")
    /\ WaitsFor("w1", "GetAllDSPoWs")
    /\ WaitsFor("CleanVariables", "w1")
    /\ WaitsFor("CalculateNewDifficulty", "w1")

(* ---- C26 ----
   m_mutexAllPoWCounter is never taken while m_mutexAllPOW or
   m_mutexAllPoWConns is held: in the record step the counter is
   incremented only after both pool mutexes have been released. *)
C26_CounterAfterRelease ==
    \A t \in LockThreads :
        "m_mutexAllPoWCounter" \in Holds(t)
            => Holds(t) = {"m_mutexAllPoWCounter"}

(* ----------------- claims on the order of the checks ------------------ *)

\* the checks on message m that come before POW::PoWVerify in the stated
\* order, the state gate aside, which the call has passed to be where it
\* is: size, freshness, whitelist, rate limit, signature, difficulty
PassesStatedChecks(m, sigOK) ==
    /\ m.len = FullBodyLen
    /\ m.blockNum = lastDSBlock.blockNum + 1
    /\ TEST_NET_MODE => <<Peer(FromIP, m.port), m.key>> \in DSWhiteList
    /\ ~AtLimit(m.key)
    /\ sigOK
    /\ m.difficulty \in {ExpectedDiff(m.blockNum), ExpectedDSDiff(m.blockNum)}

(* ---- C27 ----
   The intake pipeline runs its checks in the stated order and stops at the
   first that fails: POW::PoWVerify is called for a submission (here: has
   been called and has accepted it) only after the state gate, the size
   check, the freshness check, the whitelist check, the rate limit, the
   signature verification and the difficulty admission have passed, and
   the signature is verified only after the rate limit has passed. *)
C27_ChecksInOrder ==
    [][\A c \in Running, d \in BagToSet(calls') :
          (WorkerStep(c, d) /\ c.pc = "limit")
              => /\ d.pc = "recheck" => PassesStatedChecks(c.msg, d.sigOK)
                 /\ AtLimit(c.msg.key) => d.reason = "ExceededLimit"]_vars

(* --------------------- claims on the DS-tier map ---------------------- *)

\* the pool can be read under its mutexes, and no reset is under way
PoolReadable ==
    /\ ~m_mutexAllPOW
    /\ ~m_mutexAllPoWConns
    /\ cleanPc = "idle"

\* every DS-tier entry is the entry of m_allPoWs for its key
DSPoWsOfPool ==
    \A k \in DOMAIN m_allDSPoWs :
        k \in DOMAIN m_allPoWs /\ m_allDSPoWs[k] = m_allPoWs[k]

(* ---- C28 ----
   An accepted submission is inserted into m_allDSPoWs if and only if its
   difficulty is the expected DS difficulty (DS_POW_DIFFICULTY for block 1,
   else that of the last DS block header); consequently, whenever both maps
   are read under the pool mutexes, every key of m_allDSPoWs is a key of
   m_allPoWs with the same hash, also after the same key has later
   submitted at the shard difficulty. *)
C28_DSTierSubset ==
    [][/\ \A c \in Running, d \in BagToSet(calls') :
             (WorkerStep(c, d) /\ c.pc = "dspows")
                 => IF c.msg.difficulty
                          = (IF c.msg.blockNum = 1 THEN DS_POW_DIFFICULTY
                             ELSE lastDSBlock.dsDifficulty)
                    THEN /\ c.msg.key \in DOMAIN m_allDSPoWs'
                         /\ m_allDSPoWs'[c.msg.key] = c.msg.hash
                    ELSE m_allDSPoWs' = m_allDSPoWs
       /\ PoolReadable' => DSPoWsOfPool']_vars

(* ------------------ claims on the resynchronisation ------------------- *)

(* ---- C29 ----
   A timeout of StartSynchronization waiting for the offline lookups only
   ends that attempt, which is made again later: with detached functions
   that go on and lookups that answer in the end, a node whose m_syncType
   is not NO_SYNC comes back to NO_SYNC; it is never left for good with
   m_syncType other than NO_SYNC and no resynchronisation running. *)
C29_ResyncEnds == (m_syncType # NO_SYNC) ~> (m_syncType = NO_SYNC)

(* ---- C30 ----
   At most one resynchronisation is started per fall-behind: under any
   interleaving of concurrent calls of RejoinAsDS the sequence of lines
   429-432 (m_syncType = DS_SYNC, CleanVariables, StartSynchronization) is
   begun only when m_syncType is NO_SYNC, so that it runs at most once
   until m_syncType is NO_SYNC again. *)
C30_OneResync ==
    [][\A t \in RejoinThreads :
          (threadAt[t] = "func" /\ threadAt'[t] = "install")
              => m_syncType = NO_SYNC]_vars

(* ------------------ claims on the connections map --------------------- *)

\* the entries of key k are those of one submission: the hash of a solution
\* and the peer that solution was sent from
OfOneSubmission(k) ==
    \E s \in Solutions :
        /\ m_allPoWs[k] = s.hash
        /\ m_allPoWConns[k] = Peer(FromIP, s.port)

(* ---- C31 ----
   In every state in which no record step and no CleanVariables is under
   way, m_allPoWConns and m_allPoWs have the same keys, and for every key
   m_allPoWConns holds the peer (sender address, declared port) of the
   accepted submission whose hash m_allPoWs holds, the latest accepted one,
   also when a key submits again from another port. *)
C31_ConnOfLatest ==
    PoolReadable
        => /\ DOMAIN m_allPoWConns = DOMAIN m_allPoWs
           /\ \A k \in DOMAIN m_allPoWs : OfOneSubmission(k)

(* ------------------- claims on the consensus id ----------------------- *)

\* m_consensusMyID is an index into the DS committee, and the entry there
\* carries the key of this node
OwnIndex ==
    /\ 0 <= m_consensusMyID
    /\ m_consensusMyID < Len(m_DSCommittee)
    /\ m_DSCommittee[m_consensusMyID + 1] = m_selfKey

(* ---- C32 ----
   After ProcessSetPrimary or FinishRejoinAsDS has computed the consensus
   id of the node, m_consensusMyID is a valid index into the DS committee
   (0 <= m_consensusMyID < size of the committee) and the committee entry
   at that index carries the public key of the node. *)
C32_OwnIndex ==
    [][(\/ /\ ExecuteStep
           /\ executed'.handler = "ProcessSetPrimary"
           /\ executed'.deserialized
        \/ m_syncType # NO_SYNC /\ m_syncType' = NO_SYNC)
          => OwnIndex']_vars

(* ---------------- claims on the difficulty of small networks ---------- *)

\* a network whose adjustment threshold rounds down to 0, with a number of
\* submissions that differs from the number of nodes
ZeroThresholdCall ==
    /\ probe.op = "CalculateNewDifficulty"
    /\ probe.currentNodes > 0
    /\ (probe.currentNodes * POW_CHANGE_PERCENT_TO_ADJ_DIFF)
           \div ONE_HUNDRED_PERCENT = 0
    /\ probe.powSubmissions # probe.currentNodes

(* ---- C33 ----
   On a small network, where the threshold currentNodes *
   POW_CHANGE_PERCENT_TO_ADJ_DIFF / 100 rounds down to 0 and the submissions
   differ from currentNodes, CalculateNewDifficulty divides by no zero and
   still adjusts the difficulty in the direction of the deviation: up when
   there are more submissions than nodes, down when there are fewer; it
   does not leave the difficulty unchanged. *)
C33_AdjustsTowardsDeviation ==
    ZeroThresholdCall
        => /\ probe.powSubmissions > probe.currentNodes
                => probe.adjustment > 0
           /\ probe.powSubmissions < probe.currentNodes
                => probe.adjustment < 0

====
